---- MODULE Spec2Model ----
(***************************************************************************)
(* commitgen: the generation client (GeminiClient) and its response        *)
(* contract (GeminiClient::parse_response_json), src/src/main.rs.          *)
(*                                                                         *)
(* A char is its Unicode scalar value and a string the sequence of its     *)
(* chars, so that trimming, escaping, decoding and key order act on the    *)
(* characters the program sees: "a" is <<97>>, " a\n" is <<32, 97, 10>>.   *)
(* A serde_json::Value is a record                                         *)
(*   [t |-> tag, s |-> text, a |-> elements,                               *)
(*    m |-> <<key, value>> entries in key order]                           *)
(* of one shape for every tag (s is the text of a string, the Display of   *)
(* a number or of a boolean); an Option is a sequence of length 0 or 1.    *)
(***************************************************************************)
EXTENDS Integers, Sequences, FiniteSets, TLC

VARIABLES
    v,          \* parse: the serde_json::Value handed to parse_response_json
    w,          \* parse: a second value, handed to a second evaluation
    out,        \* parse: the result for v (NotYet before the call returns)
    out2,       \* parse: the result for w
    client,     \* the GeminiClient: [api_key, endpoint]
    calls,      \* per generate call: its position, prompt, response, result
    wire        \* per generate call: the requests on the network for it, the one
                \* generate built first, then those that follow redirects

vars == <<v, w, out, out2, client, calls, wire>>

-----------------------------------------------------------------------------
(* Bounds *)

MaxLen == 3         \* longest text leaf, in characters
NCalls == 2         \* generate calls in flight on the one client
MaxRedirects == 2   \* redirects the service answers a call with

-----------------------------------------------------------------------------
(* serde_json::Value *)

Null == [t |-> "Null", s |-> <<>>, a |-> <<>>, m |-> <<>>]
\* true / false
\* "true", "false"
Bool(b) == [t |-> "Bool", s |-> IF b THEN <<116, 114, 117, 101>> ELSE <<102, 97, 108, 115,
        101>>, a |-> <<>>, m |-> <<>>]
\* A number, kept as the text its Display gives: "1234", "-7", "0.0", "1e+21".
Num(txt) == [t |-> "Num", s |-> txt, a |-> <<>>, m |-> <<>>]
Str(cs) == [t |-> "Str", s |-> cs, a |-> <<>>, m |-> <<>>]
Arr(es) == [t |-> "Arr", s |-> <<>>, a |-> es, m |-> <<>>]
Obj(kvs) == [t |-> "Obj", s |-> <<>>, a |-> <<>>, m |-> kvs]

None == <<>>
Some(x) == <<x>>

\* Value::get with a &str index: a member of an object, None for any other value.
get_key(x, key) ==
    IF x.t = "Obj" /\ \E i \in DOMAIN x.m : x.m[i][1] = key
    THEN Some(x.m[CHOOSE i \in DOMAIN x.m : x.m[i][1] = key][2])
    ELSE None

\* Value::get with a usize index (0-based): an element of an array, None otherwise.
get_idx(x, i) ==
    IF x.t = "Arr" /\ i + 1 \in DOMAIN x.a THEN Some(x.a[i + 1]) ELSE None

\* Value::as_str
as_str(x) == IF x.t = "Str" THEN Some(x.s) ELSE None

\* Option::and_then(|c| c.get(key))
and_then_get_key(o, key) == IF o = None THEN None ELSE get_key(o[1], key)

\* Option::and_then(|c| c.get(i))
and_then_get_idx(o, i) == IF o = None THEN None ELSE get_idx(o[1], i)

\* Option::and_then(|t| t.as_str())
and_then_as_str(o) == IF o = None THEN None ELSE as_str(o[1])

\* The keys the program names.
KeyCandidates == <<99, 97, 110, 100, 105, 100, 97, 116, 101, 115>>  \* "candidates"
KeyContent == <<99, 111, 110, 116, 101, 110, 116>>  \* "content"
KeyParts == <<112, 97, 114, 116, 115>>  \* "parts"
KeyText == <<116, 101, 120, 116>>  \* "text"
KeyContents == <<99, 111, 110, 116, 101, 110, 116, 115>>  \* "contents"
\* "generationConfig"
KeyGenerationConfig == <<103, 101, 110, 101, 114, 97, 116, 105, 111, 110, 67, 111, 110, 102,
        105, 103>>
KeyTemperature == <<116, 101, 109, 112, 101, 114, 97, 116, 117, 114, 101>>  \* "temperature"
\* "maxOutputTokens"
KeyMaxOutputTokens == <<109, 97, 120, 79, 117, 116, 112, 117, 116, 84, 111, 107, 101, 110, 115>>

-----------------------------------------------------------------------------
(* str::trim *)

\* char::is_whitespace: the characters with the Unicode property White_Space
is_whitespace(c) ==
    \/ c \in 9..13          \* \t \n U+000B \f \r
    \/ c = 32               \* space
    \/ c = 133              \* U+0085
    \/ c = 160              \* U+00A0
    \/ c = 5760             \* U+1680
    \/ c \in 8192..8202     \* U+2000..U+200A
    \/ c \in {8232, 8233}   \* U+2028, U+2029
    \/ c = 8239             \* U+202F
    \/ c = 8287             \* U+205F
    \/ c = 12288            \* U+3000

\* cs without the whitespace at its start, at its end
trim_start(cs) ==
    LET n == Len(cs)
        z == CHOOSE z \in 0..n :
                 /\ z = n \/ ~is_whitespace(cs[z + 1])
                 /\ \A j \in 1..z : is_whitespace(cs[j])
    IN  SubSeq(cs, z + 1, n)

trim_end(cs) ==
    LET n == Len(cs)
        z == CHOOSE z \in 0..n :
                 /\ z = n \/ ~is_whitespace(cs[n - z])
                 /\ \A j \in 0..(z - 1) : is_whitespace(cs[n - j])
    IN  SubSeq(cs, 1, n - z)

trim(cs) == trim_end(trim_start(cs))

-----------------------------------------------------------------------------
(* Display of a serde_json::Value: compact JSON, object keys in map order *)

\* The decimal digits of a natural number, as Display writes them.
RECURSIVE Digits(_)
Digits(k) == IF k < 10 THEN <<48 + k>> ELSE Digits(k \div 10) \o <<48 + (k % 10)>>

\* A hexadecimal digit in lower case.
HexDigit(d) == IF d < 10 THEN 48 + d ELSE 87 + d

\* The escape of one char of a JSON string: \" \\ \b \f \n \r \t, \u00xx for the
\* other control characters, the char itself otherwise.
EscapeChar(c) ==
    CASE c = 34 -> <<92, 34>>
      [] c = 92 -> <<92, 92>>
      [] c = 8 -> <<92, 98>>
      [] c = 12 -> <<92, 102>>
      [] c = 10 -> <<92, 110>>
      [] c = 13 -> <<92, 114>>
      [] c = 9 -> <<92, 116>>
      [] c < 32 /\ c \notin {8, 9, 10, 12, 13} ->
             <<92, 117, 48, 48, HexDigit(c \div 16), HexDigit(c % 16)>>
      [] OTHER -> <<c>>

\* The escapes of the chars of cs, one after the other
RECURSIVE Escape(_)
Escape(cs) ==
    IF cs = <<>> THEN <<>>
    ELSE IF Len(cs) = 1 THEN EscapeChar(cs[1])
    ELSE Escape(SubSeq(cs, 1, Len(cs) \div 2)) \o Escape(SubSeq(cs, (Len(cs) \div 2) + 1, Len(cs)))

Quoted(cs) == <<34>> \o Escape(cs) \o <<34>>

(* The serializer descends into arrays and objects; its call stack is the
   sequence todo of what is left to write, the next to write last: a text as it
   is, or a value. *)
Lit(text) == [lit |-> TRUE, text |-> text, val |-> Null]
Val(x) == [lit |-> FALSE, text |-> <<>>, val |-> x]

\* What is left to write of an array, of an object, after its opening bracket
RenderElems(es) ==
    <<Lit(<<93>>)>>
        \o [i \in 1..(2 * Len(es) - 1) |->
               IF i % 2 = 1 THEN Val(es[Len(es) - ((i - 1) \div 2)]) ELSE Lit(<<44>>)]
RenderEntries(kvs) ==
    <<Lit(<<125>>)>>
        \o [i \in 1..(2 * Len(kvs)) |->
               LET k == Len(kvs) - ((i - 1) \div 2)
               IN  IF i % 2 = 1 THEN Val(kvs[k][2])
                   ELSE Lit((IF k = 1 THEN <<>> ELSE <<44>>) \o Quoted(kvs[k][1]) \o <<58>>)]

\* The next of todo is written to out.
RenderStep(s) ==
    LET top == s.todo[Len(s.todo)]
        rest == SubSeq(s.todo, 1, Len(s.todo) - 1)
        x == top.val
    IN  IF top.lit THEN [todo |-> rest, out |-> s.out \o top.text]
        \* "null"
        ELSE CASE x.t = "Null" -> [todo |-> rest, out |-> s.out \o <<110, 117, 108, 108>>]
               [] x.t = "Bool" -> [todo |-> rest, out |-> s.out \o x.s]
               [] x.t = "Num" -> [todo |-> rest, out |-> s.out \o x.s]
               [] x.t = "Str" -> [todo |-> rest, out |-> s.out \o Quoted(x.s)]
               [] x.t = "Arr" -> [todo |-> rest \o RenderElems(x.a), out |-> Append(s.out, 91)]
               [] x.t = "Obj" -> [todo |-> rest \o RenderEntries(x.m), out |-> Append(s.out, 123)]

\* At most n steps of the serializer from s on
RECURSIVE RenderSteps(_, _)
RenderSteps(s, n) ==
    IF s.todo = <<>> THEN s
    ELSE IF n <= 1 THEN RenderStep(s)
    ELSE LET h == RenderSteps(s, n \div 2)
         IN  IF h.todo = <<>> THEN h ELSE RenderSteps(h, n - (n \div 2))

\* The steps of the serializer from s on, n and more, until nothing is left
RECURSIVE RenderAll(_, _)
RenderAll(s, n) ==
    LET h == RenderSteps(s, n)
    IN  IF h.todo = <<>> THEN h.out ELSE RenderAll(h, 2 * n)

Render(x) == RenderAll([todo |-> <<Val(x)>>, out |-> <<>>], 16)

-----------------------------------------------------------------------------
(* serde_json::from_slice: the decoding of a body text into a Value, as
   Response::json does it.  serde_json is taken with its default features: a
   number is a u64, an i64 or an f64, an object keeps its keys in order, and
   input nested 128 levels deep is refused. *)

\* What a decoding step gives: a value and the index of the next char, or a
\* failure.
Parsed(x, i) == [ok |-> TRUE, val |-> x, pos |-> i]
Failed == [ok |-> FALSE, val |-> Null, pos |-> 0]

IsDigit(c) == c \in 48..57

\* The whitespace of JSON: space, \t, \n, \r
json_whitespace(c) == c \in {32, 9, 10, 13}

\* The char at i, 0 beyond the end
peek_or_null(cs, i) == IF i >= 1 /\ i <= Len(cs) THEN cs[i] ELSE 0

\* The index of the first char from i on that is not whitespace, Len(cs) + 1
\* when there is none.
skip_whitespace(cs, i) ==
    IF i > Len(cs) THEN i
    ELSE CHOOSE j \in i..(Len(cs) + 1) :
             /\ j > Len(cs) \/ ~json_whitespace(cs[j])
             /\ \A k \in i..(j - 1) : json_whitespace(cs[k])

starts_with(cs, i, lit) ==
    i + Len(lit) - 1 <= Len(cs) /\ SubSeq(cs, i, i + Len(lit) - 1) = lit

\* The index of the first char from i on that is not a digit.
digits_end(cs, i) ==
    IF i > Len(cs) THEN i
    ELSE CHOOSE j \in i..(Len(cs) + 1) :
             /\ j > Len(cs) \/ ~IsDigit(cs[j])
             /\ \A k \in i..(j - 1) : IsDigit(cs[k])

\* The value of a hexadecimal digit, -1 for any other char.
HexValue(c) ==
    IF c \in 48..57 THEN c - 48
    ELSE IF c \in 97..102 THEN c - 87
    ELSE IF c \in 65..70 THEN c - 55
    ELSE -1

\* The number written by the four hexadecimal digits at i, -1 if they are not.
hex4(cs, i) ==
    IF i + 3 <= Len(cs) /\ \A j \in i..(i + 3) : HexValue(cs[j]) >= 0
    THEN 4096 * HexValue(cs[i]) + 256 * HexValue(cs[i + 1])
             + 16 * HexValue(cs[i + 2]) + HexValue(cs[i + 3])
    ELSE -1

\* a is before b in the order of strings (byte order, which is char order).
LtText(a, b) ==
    \E i \in 1..Len(b) :
        /\ i <= Len(a) + 1
        /\ \A j \in 1..(i - 1) : a[j] = b[j]
        /\ i = Len(a) + 1 \/ a[i] < b[i]

\* The char an escape stands for, from the char after the backslash on.
parse_escape(cs, i) ==
    IF i > Len(cs) THEN Failed
    ELSE LET e == cs[i]
             \* \uXXXX with the number n, a low surrogate after a high one
             paired(n, low) ==
                 IF starts_with(cs, i + 5, <<92, 117>>) /\ low \in 56320..57343
                 THEN Parsed(65536 + (n - 55296) * 1024 + (low - 56320), i + 11)
                 ELSE Failed
             unicode(n) ==
                 IF n < 0 \/ n \in 56320..57343 THEN Failed
                 ELSE IF n \in 55296..56319 THEN paired(n, hex4(cs, i + 7))
                 ELSE Parsed(n, i + 5)
         IN  CASE e = 34 -> Parsed(34, i + 1)
               [] e = 92 -> Parsed(92, i + 1)
               [] e = 47 -> Parsed(47, i + 1)
               [] e = 98 -> Parsed(8, i + 1)
               [] e = 102 -> Parsed(12, i + 1)
               [] e = 110 -> Parsed(10, i + 1)
               [] e = 114 -> Parsed(13, i + 1)
               [] e = 116 -> Parsed(9, i + 1)
               [] e = 117 -> unicode(hex4(cs, i + 1))
               [] OTHER -> Failed

\* The index of the first char from i on that is not plain in a string: a
\* quote, a backslash or a control char.
plain_end(cs, i) ==
    IF i > Len(cs) THEN i
    ELSE CHOOSE j \in i..(Len(cs) + 1) :
             /\ j > Len(cs) \/ cs[j] = 34 \/ cs[j] = 92 \/ cs[j] < 32
             /\ \A k \in i..(j - 1) : cs[k] # 34 /\ cs[k] # 92 /\ cs[k] >= 32

\* SliceRead::parse_str: the scan of a string is at pos with acc read so
\* far; a step takes the plain chars up to the next quote or backslash, and the
\* escape when it is a backslash.
Scanning(pos, acc) == [mode |-> "scan", pos |-> pos, acc |-> acc]
scan_step(cs, s) ==
    LET failed == [mode |-> "failed", pos |-> 0, acc |-> <<>>]
        j == plain_end(cs, s.pos)
        run == s.acc \o SubSeq(cs, s.pos, j - 1)
        escaped(e) == IF e.ok THEN Scanning(e.pos, Append(run, e.val)) ELSE failed
    IN  IF peek_or_null(cs, j) = 34 THEN [mode |-> "done", pos |-> j + 1, acc |-> run]
        ELSE IF peek_or_null(cs, j) = 92 THEN escaped(parse_escape(cs, j + 1))
        ELSE failed

\* At most n steps of the scan from s on
RECURSIVE scan(_, _, _)
scan(cs, s, n) ==
    IF s.mode # "scan" THEN s
    ELSE IF n <= 1 THEN scan_step(cs, s)
    ELSE LET h == scan(cs, s, n \div 2)
         IN  IF h.mode # "scan" THEN h ELSE scan(cs, h, n - (n \div 2))

\* A string from the char after its opening quote on; acc is what was read.
\* A step that is not the last moves pos on, so Len(cs) steps scan any string.
parse_str(cs, i, acc) ==
    LET scanned(s) == IF s.mode = "done" THEN Parsed(Str(s.acc), s.pos) ELSE Failed
    IN  scanned(scan(cs, Scanning(i, acc), Len(cs)))

-----------------------------------------------------------------------------
(* Numbers.  The arithmetic of u64 and f64 is beyond the integers of the
   model checker, so a natural number is a sequence of limbs: its digits in
   base 10000, the least significant first, the empty sequence for zero. *)

Base == 10000

Limb(x, i) == IF i >= 1 /\ i <= Len(x) THEN x[i] ELSE 0

\* x without the zero limbs at its top
Trim(x) ==
    SubSeq(x, 1, Len(x) - (CHOOSE z \in 0..Len(x) :
                               /\ z = Len(x) \/ x[Len(x) - z] # 0
                               /\ \A j \in 0..(z - 1) : x[Len(x) - j] = 0))

\* c * x for c = 2 or 5: what a limb carries does not depend on what it
\* receives.
TimesSmall(x, c) ==
    Trim([i \in 1..(Len(x) + 1) |-> ((c * Limb(x, i)) % Base) + ((c * Limb(x, i - 1)) \div Base)])
Times2(x) == TimesSmall(x, 2)

\* x * c^n for c = 2 or 5
RECURSIVE TimesPower(_, _, _)
TimesPower(x, c, n) ==
    IF n <= 0 THEN x
    ELSE IF n = 1 THEN TimesSmall(x, c)
    ELSE LET h == TimesPower(x, c, n \div 2)
         IN  IF Len(h) = 0 THEN h ELSE TimesPower(h, c, n - (n \div 2))

\* -1, 0 or 1 as x is below, equal to or above y
Cmp(x, y) ==
    LET n == Len(x)
        \* the limbs differ at the k-th from the top, or nowhere (k = n)
        at(k) == IF k = n THEN 0 ELSE IF x[n - k] < y[n - k] THEN -1 ELSE 1
    IN  IF Len(x) # Len(y) THEN (IF Len(x) < Len(y) THEN -1 ELSE 1)
        ELSE at(CHOOSE k \in 0..n :
                    /\ k = n \/ x[n - k] # y[n - k]
                    /\ \A j \in 0..(k - 1) : x[n - j] = y[n - j])

\* The limb at or below i that decides what is carried beyond i (0 when there
\* is none): the nearest that is not the neutral one.
Deciding(s, i, neutral) ==
    i - (CHOOSE r \in 0..i :
             /\ r = i \/ s[i - r] # neutral
             /\ \A u \in 0..(r - 1) : s[i - u] = neutral)

\* x + y: of the sums s limb by limb, a limb receives a carry when the
\* deciding limb below it is Base or more.
Plus(x, y) ==
    LET settled(s) ==
            Trim([i \in 1..Len(s) |->
                     (s[i] + (IF Limb(s, Deciding(s, i - 1, Base - 1)) >= Base THEN 1 ELSE 0))
                         % Base])
    IN  settled([i \in 1..((IF Len(x) > Len(y) THEN Len(x) ELSE Len(y)) + 1) |->
                    Limb(x, i) + Limb(y, i)])

\* x - y, for y <= x: a limb lends when the deciding limb below it is negative.
Minus(x, y) ==
    LET settled(s) ==
            Trim([i \in 1..Len(s) |->
                     (s[i] - (IF Limb(s, Deciding(s, i - 1, 0)) < 0 THEN 1 ELSE 0) + Base)
                         % Base])
    IN  settled([i \in 1..Len(x) |-> x[i] - Limb(y, i)])

\* x * c for one limb c
TimesLimb(x, c) ==
    Plus([i \in 1..Len(x) |-> (x[i] * c) % Base],
         [i \in 1..(Len(x) + 1) |-> (Limb(x, i - 1) * c) \div Base])

\* x * y
RECURSIVE Times(_, _)
Times(x, y) ==
    IF y = <<>> THEN <<>>
    ELSE LET rest == Times(x, Tail(y))
         IN  Plus(TimesLimb(x, Head(y)), IF rest = <<>> THEN <<>> ELSE <<0>> \o rest)

\* 10^n
Pow10(n) == [i \in 1..((n \div 4) + 1) |-> IF i = (n \div 4) + 1 THEN 10 ^ (n % 4) ELSE 0]

\* The number a text of digits writes
FromDigits(ds) ==
    LET n == Len(ds)
        digit(p) == IF p >= 1 THEN ds[p] - 48 ELSE 0
    IN  Trim([i \in 1..((n + 3) \div 4) |->
                 digit(n - 4 * i + 4) + 10 * digit(n - 4 * i + 3)
                     + 100 * digit(n - 4 * i + 2) + 1000 * digit(n - 4 * i + 1)])

\* The digits of x, the most significant first
ToDigits(x) ==
    LET top == x[Len(x)]
        written(n) ==
            [p \in 1..n |-> 48 + ((x[((n - p) \div 4) + 1] \div (10 ^ ((n - p) % 4))) % 10)]
    IN  IF x = <<>> THEN <<48>>
        ELSE written(4 * (Len(x) - 1)
                         + (IF top >= 1000 THEN 4 ELSE IF top >= 100 THEN 3
                            ELSE IF top >= 10 THEN 2 ELSE 1))

\* Bounds of the binary logarithm of x >= 1: Log2Below(x) <= log2(x) <
\* Log2Above(x), from the top limb and log2(10000) = 13.28771...
Log2Limb(t) == Cardinality({p \in 1..13 : 2 ^ p <= t})
Log2Below(x) == Log2Limb(x[Len(x)]) + ((132877 * (Len(x) - 1)) \div 10000)
Log2Above(x) == Log2Limb(x[Len(x)]) + 2 + ((132878 * (Len(x) - 1)) \div 10000)

-----------------------------------------------------------------------------
(* f64.  A finite f64 is m * 2^q with m below 2^53 (m of 53 bits unless q is
   -1074); inf marks a result beyond the range.  The sign is kept apart. *)

F64(m, q) == [inf |-> FALSE, m |-> m, q |-> q]
Zero == [inf |-> FALSE, m |-> <<>>, q |-> 0]
Infinity == [inf |-> TRUE, m |-> <<>>, q |-> 0]

MantissaBits == 53
MinExponent == -1074
MaxExponent == 971

TwoTo52 == TimesPower(<<1>>, 2, MantissaBits - 1)
TwoTo53 == TimesPower(<<1>>, 2, MantissaBits)

\* a / b in [1, 2) with a / b = (x / y) / 2^t, for x, y >= 1
RECURSIVE Raise(_, _, _)
Raise(a, b, t) ==
    IF Cmp(a, Times2(b)) >= 0 THEN Raise(a, Times2(b), t + 1) ELSE [a |-> a, b |-> b, t |-> t]
Normalize(x, y) ==
    LET e == Log2Below(x) - Log2Above(y)
    IN  Raise(TimesPower(x, 2, -e), TimesPower(y, 2, e), e)

\* One more bit of the quotient: st.m the bits so far, st.r the remainder.
DivStep(st, b) ==
    LET step(m2, r2) ==
            IF Cmp(r2, b) >= 0
            THEN [m |-> [m2 EXCEPT ![1] = @ + 1], r |-> Minus(r2, b)]
            ELSE [m |-> m2, r |-> r2]
    IN  step(Times2(st.m), Times2(st.r))
RECURSIVE DivSteps(_, _, _)
DivSteps(st, b, n) ==
    IF n <= 0 THEN st
    ELSE IF n = 1 THEN DivStep(st, b)
    ELSE LET h == DivSteps(st, b, n \div 2)
         IN  IF Len(h.m) = 0 THEN h ELSE DivSteps(h, b, n - (n \div 2))

\* The quotient m1 of the exponent q as an f64: a carry into a 54th bit makes
\* it 2^52 of the next exponent, and no exponent is above MaxExponent.
Pack(m1, q) ==
    IF m1 = TwoTo53 THEN (IF q + 1 > MaxExponent THEN Infinity ELSE F64(TwoTo52, q + 1))
    ELSE IF q > MaxExponent THEN Infinity
    ELSE F64(m1, q)

\* The quotient st.m, one more when the remainder st.r of the division by b is
\* above one half, or is one half and st.m is odd
RoundEven(st, b) ==
    IF Cmp(Times2(st.r), b) >= (IF st.m[1] % 2 = 1 THEN 0 ELSE 1) THEN Plus(st.m, <<1>>)
    ELSE st.m

\* The f64 nearest to (nrm.a / nrm.b) * 2^(nrm.t + s), ties to the even one
Ratio(nrm, s) ==
    LET t == nrm.t + s
        bits == IF t - MinExponent + 1 < MantissaBits THEN t - MinExponent + 1
                ELSE MantissaBits
    IN  IF bits < 0 THEN Zero
        ELSE IF bits = 0
        THEN (IF Cmp(nrm.a, nrm.b) > 0 THEN F64(<<1>>, MinExponent) ELSE Zero)
        ELSE Pack(RoundEven(DivSteps([m |-> <<1>>, r |-> Minus(nrm.a, nrm.b)], nrm.b,
                                bits - 1),
                            nrm.b),
                  t - bits + 1)

\* The f64 nearest to (x / y) * 2^s, ties to the even one, for x, y >= 1
RoundRatio(x, y, s) == Ratio(Normalize(x, y), s)

\* significand as f64
FromU64(n) == IF n = <<>> THEN Zero ELSE RoundRatio(n, <<1>>, 0)

\* POW10[n]: the f64 literal 1e<n>
POW10(n) == RoundRatio(Pow10(n), <<1>>, 0)

\* f * g and f / g on f64
MulF64(f, g) ==
    IF f.m = <<>> \/ g.m = <<>> THEN Zero ELSE RoundRatio(Times(f.m, g.m), <<1>>, f.q + g.q)
DivF64(f, g) ==
    IF f.m = <<>> THEN Zero ELSE RoundRatio(f.m, g.m, f.q - g.q)

\* The length of POW10
Pow10TableLen == 309

\* The loop of f64_from_parts: f scaled by 10^exponent.
RECURSIVE scaled(_, _)
scaled(f, exponent) ==
    LET within == exponent > -Pow10TableLen /\ exponent < Pow10TableLen
        n == IF ~within THEN Pow10TableLen - 1
             ELSE IF exponent >= 0 THEN exponent ELSE -exponent
        \* f /= 1e308; exponent += 308
        next(g) == IF within THEN g ELSE scaled(g, exponent + Pow10TableLen - 1)
    IN  IF ~within /\ f.m = <<>> THEN f
        ELSE IF ~within /\ exponent >= 0 THEN Infinity
        ELSE IF exponent >= 0 THEN MulF64(f, POW10(n))
        ELSE next(DivF64(f, POW10(n)))

\* ds without the zeros at its start, at its end
strip_leading_zeros(ds) ==
    SubSeq(ds, 1 + (CHOOSE z \in 0..Len(ds) :
                        /\ z = Len(ds) \/ ds[z + 1] # 48
                        /\ \A j \in 1..z : ds[j] = 48),
           Len(ds))
strip_trailing_zeros(ds) ==
    SubSeq(ds, 1, Len(ds) - (CHOOSE z \in 0..Len(ds) :
                                 /\ z = Len(ds) \/ ds[Len(ds) - z] # 48
                                 /\ \A j \in 0..(z - 1) : ds[Len(ds) - j] = 48))

Zeros(n) == [i \in 1..n |-> 48]

RECURSIVE ToNat(_)
ToNat(ds) ==
    IF ds = <<>> THEN 0 ELSE 10 * ToNat(SubSeq(ds, 1, Len(ds) - 1)) + (ds[Len(ds)] - 48)

\* a <= b for two numbers written without leading zeros
LeqNumber(a, b) == Len(a) < Len(b) \/ (Len(a) = Len(b) /\ (a = b \/ LtText(a, b)))

\* The exponent of a float in scientific form: signed when it is positive too.
exponent_text(e) == IF e < 0 THEN <<45>> \o Digits(-e) ELSE <<43>> \o Digits(e)

\* The layout of the f64 sig * 10^k (sig its shortest digits, no zero at either
\* end): plain up to 16 integer digits and down to 0.00001, else d.ddde[+-]x.
float_text(sig, k) ==
    LET length == Len(sig)
        kk == length + k
    IN  IF 0 <= k /\ kk <= 16 THEN sig \o Zeros(k) \o <<46, 48>>
        ELSE IF 0 < kk /\ kk <= 16
        THEN SubSeq(sig, 1, kk) \o <<46>> \o SubSeq(sig, kk + 1, length)
        ELSE IF -5 < kk /\ kk <= 0 THEN <<48, 46>> \o Zeros(-kk) \o sig
        ELSE IF length = 1 THEN sig \o <<101>> \o exponent_text(kk - 1)
        ELSE <<sig[1], 46>> \o SubSeq(sig, 2, length) \o <<101>> \o exponent_text(kk - 1)

\* The most digits the shortest text of an f64 has
MaxShortest == 17

\* The digits of mid and of the halfway points below and above it, which are
\* unit (closer) or 2 * unit below and 2 * unit above
Halfway(mid, unit, closer) ==
    [m |-> ToDigits(mid),
     l |-> ToDigits(Minus(mid, IF closer THEN unit ELSE Times2(unit))),
     h |-> ToDigits(Plus(mid, Times2(unit)))]

\* The shortest digits between d.l and d.h (these two as well when even), and
\* among those the nearest to d.m: [sig, k] for sig * 10^k, the digits being in
\* units of 10^-scale10.  md, ld and hd are the digits at one length n; p is
\* the number of digits of md left out.
Between(d, even, scale10) ==
    LET n == Len(d.h)
        hd == d.h
        md == Zeros(n - Len(d.m)) \o d.m
        ld == Zeros(n - Len(d.l)) \o d.l
        \* md cut after its first n - p digits, and the next number up
        below(p) == [i \in 1..n |-> IF i <= n - p THEN md[i] ELSE 48]
        nines(p) == CHOOSE z \in 0..(n - p) :
                        /\ z = n - p \/ md[n - p - z] # 57
                        /\ \A j \in 0..(z - 1) : md[n - p - j] = 57
        raised(p, z) == [i \in 1..n |->
                            IF i > n - p - z THEN 48
                            ELSE IF i = n - p - z THEN md[i] + 1
                            ELSE md[i]]
        above(p) == raised(p, nines(p))
        inside(c) == c # Zeros(n) /\ (LtText(ld, c) \/ (even /\ ld = c))
        belowIn(p) == inside(below(p))
        under(c) == LtText(c, hd) \/ (even /\ c = hd)
        aboveIn(p) == nines(p) < n - p /\ under(above(p))
        within(p) == belowIn(p) \/ aboveIn(p)
        most == IF n > MaxShortest + 1 THEN MaxShortest + 1 ELSE n
        written(cut, sig, p) == [sig |-> sig, k |-> p - scale10 + (Len(cut) - Len(sig))]
        stripped(cut, p) == written(cut, strip_trailing_zeros(cut), p)
        nearest(p, lowIn, highIn) ==
            LET rest == SubSeq(md, n - p + 1, n)
                half == <<53>> \o Zeros(p - 1)
                up == IF ~lowIn THEN TRUE
                      ELSE IF ~highIn THEN FALSE
                      ELSE IF rest = half THEN ((md[n - p] - 48) % 2) = 1
                      ELSE p > 0 /\ LtText(half, rest)
            IN  stripped(strip_leading_zeros(
                             SubSeq(IF up THEN above(p) ELSE below(p), 1, n - p)), p)
        left(p) == nearest(p, belowIn(p), aboveIn(p))
    IN  left(n - (CHOOSE c \in 0..most :
                      /\ within(n - c)
                      /\ \A e \in 0..(c - 1) : ~within(n - e)))

\* The shortest digits that read back as the f64 f > 0, and among those the
\* nearest to f: [sig, k] with f printed as sig * 10^k.  f is 4 * f.m units of
\* 2^(f.q - 2), and that is of 10^(f.q - 2) or of 10^-(2 - f.q) in decimal.
shortest(f) ==
    LET q2 == f.q - 2
        c == IF q2 >= 0 THEN 2 ELSE 5
        n == IF q2 >= 0 THEN q2 ELSE -q2
    IN  Between(Halfway(TimesPower(TimesPower(f.m, 2, 2), c, n), TimesPower(<<1>>, c, n),
                        f.m = TwoTo52 /\ f.q > MinExponent),
                f.m[1] % 2 = 0,
                IF q2 >= 0 THEN 0 ELSE n)

\* Display of an f64 Number
f64_text(positive, f) ==
    LET laid(s) == float_text(s.sig, s.k)
    IN  (IF positive THEN <<>> ELSE <<45>>)
            \o (IF f.m = <<>> THEN <<48, 46, 48>> ELSE laid(shortest(f)))

\* "18446744073709551615"
U64Max == <<49, 56, 52, 52, 54, 55, 52, 52, 48, 55, 51, 55, 48, 57, 53, 53, 49, 54, 49, 53>>
\* "9223372036854775808"
I64MinMagnitude == <<57, 50, 50, 51, 51, 55, 50, 48, 51, 54, 56, 53, 52, 55, 55, 53, 56, 48,
        56>>
I32Max == <<50, 49, 52, 55, 52, 56, 51, 54, 52, 55>>  \* "2147483647"

\* How many of the digits ds the significand takes after the digits sig: as
\* many as keep it within u64.  rest is all the digits from the first that is
\* not zero on.
taken(sig, ds) ==
    LET kept(rest) ==
            (Len(sig) + Len(ds) - Len(rest))
                + (IF Len(rest) <= 19 THEN Len(rest)
                   ELSE IF LeqNumber(SubSeq(rest, 1, 20), U64Max) THEN 20
                   ELSE 19)
                - Len(sig)
    IN  kept(strip_leading_zeros(sig \o ds))

\* The end of f64_from_parts: an infinite f64 is refused, a finite one is the
\* Number read up to i.
finite_f64(positive, f, i) ==
    IF f.inf THEN Failed ELSE Parsed(Num(f64_text(positive, f)), i)

\* Deserializer::f64_from_parts.  significand is the text of its digits.
f64_from_parts(positive, significand, exponent, i) ==
    finite_f64(positive, scaled(FromU64(FromDigits(significand)), exponent), i)

\* Deserializer::parse_exponent_overflow, from the digits of the exponent on
parse_exponent_overflow(cs, i, positive, zero_significand, positive_exp) ==
    IF ~zero_significand /\ positive_exp THEN Failed
    ELSE Parsed(Num(f64_text(positive, Zero)), digits_end(cs, i))

\* Deserializer::parse_exponent, from the e on
parse_exponent(cs, i, positive, significand, starting_exp) ==
    LET signed == i + 1 <= Len(cs) /\ cs[i + 1] \in {43, 45}
        positive_exp == ~(signed /\ cs[i + 1] = 45)
        first == IF signed THEN i + 2 ELSE i + 1
        last == digits_end(cs, first)
        digits == strip_leading_zeros(SubSeq(cs, first, last - 1))
        \* exp within i32, with saturating_add and saturating_sub
        final_exp(exp) ==
            IF positive_exp
            THEN (IF starting_exp > 0 /\ exp > ToNat(I32Max) - starting_exp
                  THEN ToNat(I32Max) ELSE starting_exp + exp)
            ELSE (IF starting_exp < 0 /\ exp > ToNat(I32Max) + starting_exp
                  THEN -ToNat(I32Max) ELSE starting_exp - exp)
    IN  IF last = first THEN Failed
        ELSE IF ~LeqNumber(digits, I32Max)
        THEN parse_exponent_overflow(cs, first, positive,
                 strip_leading_zeros(significand) = <<>>, positive_exp)
        ELSE f64_from_parts(positive, significand, final_exp(ToNat(digits)), last)

\* Deserializer::parse_decimal_overflow, from the first digit left out on
parse_decimal_overflow(cs, i, positive, significand, exponent) ==
    LET e == digits_end(cs, i)
    IN  IF e <= Len(cs) /\ cs[e] \in {101, 69}
        THEN parse_exponent(cs, e, positive, significand, exponent)
        ELSE f64_from_parts(positive, significand, exponent, e)

\* Deserializer::parse_decimal, from the point on
parse_decimal(cs, i, positive, significand, exponent_before_decimal_point) ==
    LET e == digits_end(cs, i + 1)
        fraction == SubSeq(cs, i + 1, e - 1)
        n == taken(significand, fraction)
        exponent == exponent_before_decimal_point - n
        full == significand \o SubSeq(fraction, 1, n)
    IN  IF n < Len(fraction)
        THEN parse_decimal_overflow(cs, i + 1 + n, positive, full, exponent)
        ELSE IF n = 0 THEN Failed
        ELSE IF e <= Len(cs) /\ cs[e] \in {101, 69}
        THEN parse_exponent(cs, e, positive, full, exponent)
        ELSE f64_from_parts(positive, full, exponent, e)

\* Deserializer::parse_long_integer, from the first digit left out on
parse_long_integer(cs, i, positive, significand) ==
    LET e == digits_end(cs, i)
    IN  IF e <= Len(cs) /\ cs[e] = 46
        THEN parse_decimal(cs, e, positive, significand, e - i)
        ELSE IF e <= Len(cs) /\ cs[e] \in {101, 69}
        THEN parse_exponent(cs, e, positive, significand, e - i)
        ELSE f64_from_parts(positive, significand, e - i, e)

\* Deserializer::parse_number, from the char after the integer digits on
parse_number(cs, i, positive, significand) ==
    IF i <= Len(cs) /\ cs[i] = 46 THEN parse_decimal(cs, i, positive, significand, 0)
    ELSE IF i <= Len(cs) /\ cs[i] \in {101, 69}
    THEN parse_exponent(cs, i, positive, significand, 0)
    ELSE IF positive THEN Parsed(Num(significand), i)
    ELSE IF significand # <<48>> /\ LeqNumber(significand, I64MinMagnitude)
    THEN Parsed(Num(<<45>> \o significand), i)
    ELSE Parsed(Num(f64_text(FALSE, FromU64(FromDigits(significand)))), i)

\* Deserializer::parse_integer, from the first digit on: a 0 stands alone, and
\* of other digits, which end before e, n go into the significand.
parse_integer(cs, i, positive) ==
    LET e == IF cs[i] = 48 THEN i + 1 ELSE digits_end(cs, i)
        n == IF cs[i] = 48 THEN 1 ELSE taken(<<>>, SubSeq(cs, i, e - 1))
    IN  IF i > Len(cs) \/ ~IsDigit(cs[i]) THEN Failed
        ELSE IF cs[i] = 48 /\ i + 1 <= Len(cs) /\ IsDigit(cs[i + 1]) THEN Failed
        ELSE IF i + n < e
        THEN parse_long_integer(cs, i + n, positive, SubSeq(cs, i, i + n - 1))
        ELSE parse_number(cs, e, positive, SubSeq(cs, i, e - 1))

-----------------------------------------------------------------------------
(* Values *)

\* The entries of m under another key
without_key(m, key) ==
    LET other(e) == e[1] # key
    IN  SelectSeq(m, other)

\* Map::insert: the entry takes the place of one with the same key, in key order.
insert(m, key, val) ==
    LET rest == without_key(m, key)
        n == Cardinality({i \in DOMAIN rest : LtText(rest[i][1], key)})
    IN  SubSeq(rest, 1, n) \o <<<<key, val>>>> \o SubSeq(rest, n + 1, Len(rest))

\* Deserializer::remaining_depth at the start
RecursionLimit == 128

\* The key of a member at k and, as pos, where its value starts: after the key,
\* the colon and the whitespace around them.
parse_object_colon(cs, k) ==
    LET colon(kr, c) ==
            IF peek_or_null(cs, c) = 58 THEN Parsed(kr.val.s, skip_whitespace(cs, c + 1))
            ELSE Failed
        keyed(kr) == IF kr.ok THEN colon(kr, skip_whitespace(cs, kr.pos)) ELSE Failed
    IN  IF peek_or_null(cs, k) = 34 THEN keyed(parse_str(cs, k + 1, <<>>)) ELSE Failed

\* A value that is not an array or an object, from its first char on
parse_scalar(cs, i) ==
    CASE peek_or_null(cs, i) = 110 ->
           \* "null"
           IF starts_with(cs, i, <<110, 117, 108, 108>>) THEN Parsed(Null, i + 4) ELSE Failed
      [] peek_or_null(cs, i) = 116 ->
           \* "true"
           IF starts_with(cs, i, <<116, 114, 117, 101>>) THEN Parsed(Bool(TRUE),
                   i + 4) ELSE Failed
      [] peek_or_null(cs, i) = 102 ->
           \* "false"
           IF starts_with(cs, i, <<102, 97, 108, 115, 101>>) THEN Parsed(Bool(FALSE),
                   i + 5) ELSE Failed
      [] peek_or_null(cs, i) = 34 -> parse_str(cs, i + 1, <<>>)
      [] peek_or_null(cs, i) = 45 \/ IsDigit(peek_or_null(cs, i)) ->
           \* a number, after its minus sign when it has one
           parse_integer(cs, IF cs[i] = 45 THEN i + 1 ELSE i, cs[i] # 45)
      [] OTHER -> Failed

(* The decoder descends into arrays and objects; its call stack is the
   sequence open of the containers whose end was not read yet, the innermost
   last: for each the items read so far and, in an object, the key of the
   member being read.  pos is the index of the next char that is not
   whitespace.  A value is due at pos (mode "value"), or val was read just
   before pos ("after"), or the text was decoded to val ("done"), or it was
   refused ("failed"). *)
Open(isArr, items, key) == [arr |-> isArr, items |-> items, key |-> key]
Due(open, pos) == [mode |-> "value", open |-> open, pos |-> pos, val |-> Null]
After(open, pos, val) == [mode |-> "after", open |-> open, pos |-> pos, val |-> val]
Decoded(val) == [mode |-> "done", open |-> <<>>, pos |-> 0, val |-> val]
Refused == [mode |-> "failed", open |-> <<>>, pos |-> 0, val |-> Null]

\* Deserializer::deserialize_any for a Value: the value at s.pos is read, or
\* the array or object that starts there is entered.
parse_value(cs, s) ==
    LET c == peek_or_null(cs, s.pos)
        j == skip_whitespace(cs, s.pos + 1)
        member(k) ==
            IF k.ok THEN Due(Append(s.open, Open(FALSE, <<>>, k.val)), k.pos) ELSE Refused
        scalar(r) == IF r.ok THEN After(s.open, skip_whitespace(cs, r.pos), r.val) ELSE Refused
    IN  IF c \in {91, 123}
        THEN IF RecursionLimit - (Len(s.open) + 1) = 0 THEN Refused
             ELSE IF c = 91
             THEN (IF peek_or_null(cs, j) = 93
                   THEN After(s.open, skip_whitespace(cs, j + 1), Arr(<<>>))
                   ELSE Due(Append(s.open, Open(TRUE, <<>>, <<>>)), j))
             ELSE IF peek_or_null(cs, j) = 125
             THEN After(s.open, skip_whitespace(cs, j + 1), Obj(<<>>))
             ELSE member(parse_object_colon(cs, j))
        ELSE scalar(parse_scalar(cs, s.pos))

\* SeqAccess and MapAccess: s.val joins the innermost open container, which
\* goes on after a comma and ends at its closing bracket; with no container
\* open (Deserializer::end) the text must be at its end.
end_value(cs, s) ==
    LET c == peek_or_null(cs, s.pos)
        j == skip_whitespace(cs, s.pos + 1)
        inArr(top, outer) ==
            CASE c = 44 -> Due(Append(outer, Open(TRUE, Append(top.items, s.val), <<>>)), j)
              [] c = 93 -> After(outer, j, Arr(Append(top.items, s.val)))
              [] OTHER -> Refused
        member(outer, items, k) ==
            IF k.ok THEN Due(Append(outer, Open(FALSE, items, k.val)), k.pos) ELSE Refused
        inObj(outer, items) ==
            CASE c = 44 -> member(outer, items, parse_object_colon(cs, j))
              [] c = 125 -> After(outer, j, Obj(items))
              [] OTHER -> Refused
        inside(top, outer) ==
            IF top.arr THEN inArr(top, outer)
            ELSE inObj(outer, insert(top.items, top.key, s.val))
    IN  IF s.open = <<>> THEN (IF s.pos > Len(cs) THEN Decoded(s.val) ELSE Refused)
        ELSE inside(s.open[Len(s.open)], SubSeq(s.open, 1, Len(s.open) - 1))

decode_step(cs, s) == IF s.mode = "value" THEN parse_value(cs, s) ELSE end_value(cs, s)

\* At most n steps of the decoder from s on
RECURSIVE decode(_, _, _)
decode(cs, s, n) ==
    IF s.mode \in {"done", "failed"} THEN s
    ELSE IF n <= 1 THEN decode_step(cs, s)
    ELSE LET h == decode(cs, s, n \div 2)
         IN  IF h.mode \in {"done", "failed"} THEN h ELSE decode(cs, h, n - (n \div 2))

\* serde_json::from_slice::<Value>: the value of a JSON text, with nothing but
\* whitespace around it; None for any other text.  No step of the decoder
\* leaves pos where it was, so Len(raw) + 1 steps decode any text.
from_slice(raw) ==
    LET decoded(s) == IF s.mode = "done" THEN Some(s.val) ELSE None
    IN  decoded(decode(raw, Due(<<>>, skip_whitespace(raw, 1)), Len(raw) + 1))
-----------------------------------------------------------------------------
(* anyhow::Result<String> *)

NotYet == [tag |-> "NotYet", text |-> <<>>, origin |-> "", msg |-> <<>>]
Ok(cs) == [tag |-> "Ok", text |-> cs, origin |-> "", msg |-> <<>>]
\* anyhow::anyhow!(...): an error made from a formatted message
ErrMsg(ms) == [tag |-> "Err", text |-> <<>>, origin |-> "anyhow", msg |-> ms]
\* `?` on a reqwest::Error: the error converted as it is.  Its message is what
\* its kind says and, where the error carries the URL of the request, the URL.
ErrReqwest(what, url) ==
    [tag |-> "Err", text |-> <<>>, origin |-> "reqwest",
     \* " for url (", ")"
     msg |-> what \o (IF url = <<>> THEN <<>> ELSE <<32, 102, 111, 114, 32, 117, 114, 108, 32,
             40>> \o url \o <<41>>)]

ok_or_else(o, e) == IF o = None THEN e ELSE Ok(o[1])
map_trim(o) == IF o = None THEN None ELSE Some(trim(o[1]))

\* "Failed to extract message. Response: "
ExtractFailed == <<70, 97, 105, 108, 101, 100, 32, 116, 111, 32, 101, 120, 116, 114, 97, 99,
        116, 32, 109, 101, 115, 115, 97, 103, 101, 46, 32, 82, 101, 115, 112, 111, 110, 115,
        101, 58, 32>>

-----------------------------------------------------------------------------
(* GeminiClient::parse_response_json *)

\* s.trim().to_string() dropped: the text is returned as it stands.
parse_untrimmed(x) ==
    LET c1 == get_key(x, KeyCandidates)
        c2 == and_then_get_idx(c1, 0)
        c3 == and_then_get_key(c2, KeyContent)
        p4 == and_then_get_key(c3, KeyParts)
        p5 == and_then_get_idx(p4, 0)
        t6 == and_then_get_key(p5, KeyText)
        s7 == and_then_as_str(t6)
    IN  ok_or_else(s7, ErrMsg(ExtractFailed \o Render(x)))

\* as_str replaced by a rendering of whatever the leaf is: a non-string passes.
parse_any_leaf(x) ==
    LET c1 == get_key(x, KeyCandidates)
        c2 == and_then_get_idx(c1, 0)
        c3 == and_then_get_key(c2, KeyContent)
        p4 == and_then_get_key(c3, KeyParts)
        p5 == and_then_get_idx(p4, 0)
        t6 == and_then_get_key(p5, KeyText)
        s7 == IF t6 = None THEN None
              ELSE IF t6[1].t = "Str" THEN Some(t6[1].s) ELSE Some(Render(t6[1]))
    IN  ok_or_else(map_trim(s7), ErrMsg(ExtractFailed \o Render(x)))

\* The first candidate that holds a text is taken, not candidate 0.
parse_first_usable(x) ==
    LET Text(c) ==
            LET c3 == get_key(c, KeyContent)
                p4 == and_then_get_key(c3, KeyParts)
                p5 == and_then_get_idx(p4, 0)
                t6 == and_then_get_key(p5, KeyText)
            IN  and_then_as_str(t6)
        c1 == get_key(x, KeyCandidates)
        s7 == IF c1 # None /\ c1[1].t = "Arr"
                     /\ \E i \in DOMAIN c1[1].a : Text(c1[1].a[i]) # None
              THEN Text(c1[1].a[CHOOSE i \in DOMAIN c1[1].a :
                                    /\ Text(c1[1].a[i]) # None
                                    /\ \A k \in 1..(i - 1) : Text(c1[1].a[k]) = None])
              ELSE None
    IN  ok_or_else(map_trim(s7), ErrMsg(ExtractFailed \o Render(x)))

parse_response_json(x) ==
    LET c1 == get_key(x, KeyCandidates)
        c2 == and_then_get_idx(c1, 0)
        c3 == and_then_get_key(c2, KeyContent)
        p4 == and_then_get_key(c3, KeyParts)
        p5 == and_then_get_idx(p4, 0)
        t6 == and_then_get_key(p5, KeyText)
        s7 == and_then_as_str(t6)
    IN  ok_or_else(map_trim(s7), ErrMsg(ExtractFailed \o Render(x)))

-----------------------------------------------------------------------------
(* The structured values parse_response_json is applied to *)

\* space, form feed, no-break space, a
Alphabet == {32, 12, 160, 97}
Strings == UNION {[1..k -> Alphabet] : k \in 0..MaxLen}

Entry(key, val) == <<key, val>>
TextPart(t) == Obj(<<Entry(<<116, 101, 120, 116>>, t)>>)  \* "text"
\* "wrong_key"
WrongKey == Obj(<<Entry(<<119, 114, 111, 110, 103, 95, 107, 101, 121>>, Arr(<<>>))>>)
GoodPart == TextPart(Str(<<97>>))  \* "a"

TextLeaves ==
    {Str(cs) : cs \in Strings}
        \* "1234", "a"
        \cup {Str(<<1, 34, 92>>), Num(<<49, 50, 51, 52>>), Bool(TRUE), Null,
                Arr(<<Str(<<97>>)>>), Obj(<<>>)}

PartValues ==
    {TextPart(t) : t \in TextLeaves}
        \* "text", "wrong_key"
        \cup {Obj(<<Entry(<<116, 101, 120, 116>>, t), Entry(<<119, 114, 111, 110, 103, 95, 107,
                101, 121>>, Arr(<<>>))>>) :
                  t \in {Str(<<32, 97>>), Num(<<49, 50, 51, 52>>)}}  \* " a", "1234"
        \cup {WrongKey, Obj(<<>>), Str(<<97>>), Null, Arr(<<GoodPart>>)}  \* "a"

FewParts ==
    {GoodPart, TextPart(Str(<<32, 97, 32>>)), TextPart(Str(<<>>)),  \* " a "
     TextPart(Num(<<49, 50, 51, 52>>)), WrongKey, Null}  \* "1234"

PartsValues ==
    {Arr(<<p>>) : p \in PartValues}
        \cup {Arr(<<p, q>>) : p \in FewParts, q \in {GoodPart, WrongKey}}
        \cup {Arr(<<>>), GoodPart, Null, Str(<<97>>)}  \* "a"

Content(ps) == Obj(<<Entry(<<112, 97, 114, 116, 115>>, ps)>>)  \* "parts"
GoodContent == Content(Arr(<<GoodPart>>))

ContentValues ==
    {Content(ps) : ps \in PartsValues}
        \* "parts", "role", "model"
        \cup {Obj(<<Entry(<<112, 97, 114, 116, 115>>, ps), Entry(<<114, 111, 108, 101>>,
                Str(<<109, 111, 100, 101, 108>>))>>) :
                  ps \in {Arr(<<GoodPart>>), Arr(<<>>)}}
        \cup {WrongKey, Null, Arr(<<GoodContent>>)}

Candidate(c) == Obj(<<Entry(<<99, 111, 110, 116, 101, 110, 116>>, c)>>)  \* "content"
GoodCandidate == Candidate(GoodContent)

CandidateValues ==
    {Candidate(c) : c \in ContentValues}
        \* "content", "finishReason", "STOP"
        \cup {Obj(<<Entry(<<99, 111, 110, 116, 101, 110, 116>>, c), Entry(<<102, 105, 110, 105,
                115, 104, 82, 101, 97, 115, 111, 110>>, Str(<<83, 84, 79, 80>>))>>) :
                  c \in {GoodContent, Null}}
        \cup {WrongKey, Null, Str(<<97>>), Arr(<<GoodCandidate>>)}  \* "a"

FewCandidates ==
    {GoodCandidate, Candidate(Content(Arr(<<TextPart(Str(<<97, 32>>))>>))),  \* "a "
     \* "1234"
     Candidate(Content(Arr(<<>>))), Candidate(Content(Arr(<<TextPart(Num(<<49, 50, 51,
             52>>))>>))),
     WrongKey, Null}

CandidatesValues ==
    {Arr(<<c>>) : c \in CandidateValues}
        \cup {Arr(<<c, d>>) : c \in FewCandidates, d \in {GoodCandidate, WrongKey}}
        \cup {Arr(<<>>), GoodCandidate, Null, Str(<<97>>)}  \* "a"

\* "candidates"
Response(cs) == Obj(<<Entry(<<99, 97, 110, 100, 105, 100, 97, 116, 101, 115>>, cs)>>)

Values ==
    {Response(cs) : cs \in CandidatesValues}
        \* "candidates", "usageMetadata"
        \cup {Obj(<<Entry(<<99, 97, 110, 100, 105, 100, 97, 116, 101, 115>>, cs), Entry(<<117,
                115, 97, 103, 101, 77, 101, 116, 97, 100, 97, 116, 97>>, Obj(<<>>))>>) :
                  cs \in {Arr(<<GoodCandidate>>), Arr(<<>>),
                          Arr(<<Candidate(Content(Arr(<<TextPart(Str(<<97, 32>>))>>)))>>)}}  \* "a "
        \* "1234", "a"
        \cup {WrongKey, Obj(<<>>), Null, Num(<<49, 50, 51, 52>>), Str(<<97>>), Str(<<12, 34, 1,
                160>>),
              Arr(<<Response(Arr(<<GoodCandidate>>))>>)}

-----------------------------------------------------------------------------
(* The parse specification: parse_response_json applied to v, then to w *)

NoClient == [api_key |-> <<>>, endpoint |-> <<>>]

ParseInit ==
    /\ v \in Values
    /\ w \in Values
    /\ out = NotYet
    /\ out2 = NotYet
    /\ client = NoClient
    /\ calls = <<>>
    /\ wire = <<>>

Parse ==
    /\ out = NotYet
    /\ out' = parse_response_json(v)
    /\ UNCHANGED <<v, w, out2, client, calls, wire>>

ParseSecond ==
    /\ out # NotYet
    /\ out2 = NotYet
    /\ out2' = parse_response_json(w)
    /\ UNCHANGED <<v, w, out, client, calls, wire>>

ParseNext == Parse \/ ParseSecond

ParseSpec == ParseInit /\ [][ParseNext]_vars


-----------------------------------------------------------------------------
(* GeminiClient::new *)

EndpointBase ==
    \* "https://generativelanguage.googleapis.com/v1beta/models/gemini-2.5-flash:generateContent?key="
    <<104, 116, 116, 112, 115, 58, 47, 47, 103, 101, 110, 101, 114, 97, 116, 105, 118, 101,
            108, 97, 110, 103, 117, 97, 103, 101, 46, 103, 111, 111, 103, 108, 101, 97, 112,
            105, 115, 46, 99, 111, 109, 47, 118, 49, 98, 101, 116, 97, 47, 109, 111, 100, 101,
            108, 115, 47, 103, 101, 109, 105, 110, 105, 45, 50, 46, 53, 45, 102, 108, 97, 115,
            104, 58, 103, 101, 110, 101, 114, 97, 116, 101, 67, 111, 110, 116, 101, 110, 116,
            63, 107, 101, 121, 61>>

new(api_key) == [api_key |-> api_key, endpoint |-> EndpointBase \o api_key]

-----------------------------------------------------------------------------
(* GeminiClient::generate *)

MaxOutputTokens == 4096

\* The prompt is trimmed before it is put in the envelope.
request_body_trimmed(prompt) ==
    Obj(<<Entry(KeyContents,
                Arr(<<Obj(<<Entry(KeyParts, Arr(<<TextPart(Str(trim(prompt)))>>))>>)>>)),
          Entry(KeyGenerationConfig,
                Obj(<<Entry(KeyMaxOutputTokens, Num(Digits(MaxOutputTokens))),
                      Entry(KeyTemperature, Num(<<48, 46, 48>>))>>))>>)  \* "0.0"

\* serde_json::json!({...}) of the request
request_body(prompt) ==
    Obj(<<Entry(KeyContents,
                Arr(<<Obj(<<Entry(KeyParts, Arr(<<TextPart(Str(prompt))>>))>>)>>)),
          Entry(KeyGenerationConfig,
                Obj(<<Entry(KeyMaxOutputTokens, Num(Digits(MaxOutputTokens))),
                      Entry(KeyTemperature, Num(<<48, 46, 48>>))>>))>>)  \* "0.0"

\* A hexadecimal digit in upper case.
UpperHex(d) == IF d < 10 THEN 48 + d ELSE 55 + d

\* The bytes of the char c in UTF-8
utf8(c) ==
    IF c < 128 THEN <<c>>
    ELSE IF c < 2048 THEN <<192 + (c \div 64), 128 + (c % 64)>>
    ELSE IF c < 65536
         THEN <<224 + (c \div 4096), 128 + ((c \div 64) % 64), 128 + (c % 64)>>
    ELSE <<240 + (c \div 262144), 128 + ((c \div 4096) % 64),
           128 + ((c \div 64) % 64), 128 + (c % 64)>>

\* The chars the URL parser writes as %XX: in the query of an https URL and in
\* the fragment the controls and, of the visible ones, these; a char that is
\* not ASCII is written as the %XX of each of its bytes.
SPECIAL_QUERY == {32, 34, 35, 39, 60, 62}
FRAGMENT == {32, 34, 60, 62, 96}

\* utf8_percent_encode: the chars of cs, those below 32, from 127 on and in set
\* as the %XX of their bytes, the others as they are
RECURSIVE utf8_percent_encode(_, _)
utf8_percent_encode(cs, set) ==
    IF cs = <<>> THEN <<>>
    ELSE IF Len(cs) = 1
         THEN IF cs[1] < 32 \/ cs[1] >= 127 \/ cs[1] \in set
              THEN LET bytes == utf8(cs[1])
                   IN  [i \in 1..(3 * Len(bytes)) |->
                           IF i % 3 = 1 THEN 37
                           ELSE IF i % 3 = 2 THEN UpperHex(bytes[(i + 2) \div 3] \div 16)
                           ELSE UpperHex(bytes[i \div 3] % 16)]
              ELSE cs
    ELSE utf8_percent_encode(SubSeq(cs, 1, Len(cs) \div 2), set)
             \o utf8_percent_encode(SubSeq(cs, (Len(cs) \div 2) + 1, Len(cs)), set)

\* Url::parse of an endpoint new made, a text that starts with EndpointBase.
\* The parser leaves out the controls and blanks at both ends and every tab,
\* line feed and carriage return; EndpointBase, up to the = of its query, it
\* writes as it stands; what follows is the rest of the query up to the first #
\* and, from that # on, the fragment.
parse_url(input) ==
    LET last == CHOOSE n \in 0..Len(input) :
                    /\ n = 0 \/ input[n] > 32
                    /\ \A k \in (n + 1)..Len(input) : input[k] <= 32
        text == SelectSeq(SubSeq(input, 1, last), LAMBDA c : c \notin {9, 10, 13})
        rest == SubSeq(text, Len(EndpointBase) + 1, Len(text))
        hash == CHOOSE n \in 1..(Len(rest) + 1) :
                    /\ n = Len(rest) + 1 \/ rest[n] = 35
                    /\ \A k \in 1..(n - 1) : rest[k] # 35
    IN  EndpointBase
            \o utf8_percent_encode(SubSeq(rest, 1, hash - 1), SPECIAL_QUERY)
            \o (IF hash > Len(rest) THEN <<>>
                ELSE <<35>> \o utf8_percent_encode(SubSeq(rest, hash + 1, Len(rest)),
                                                   FRAGMENT))

\* Url::set_fragment(None): the URL up to its fragment
without_fragment(url) ==
    LET hash == CHOOSE n \in 1..(Len(url) + 1) :
                    /\ n = Len(url) + 1 \/ url[n] = 35
                    /\ \A k \in 1..(n - 1) : url[k] # 35
    IN  SubSeq(url, 1, hash - 1)

\* http::HeaderValue: the bytes a header value may hold are the visible ones,
\* the blank, the tab and the bytes from 128 on.
is_valid(b) == (b >= 32 /\ b # 127) \/ b = 9

\* HeaderValue::try_from(&String): the value, or none for a text with a byte a
\* header value may not hold (a line feed, say)
header_value(cs) == IF \A i \in DOMAIN cs : is_valid(cs[i]) THEN Some(cs) ELSE None

\* A request without a body
NoPayload == [t |-> "Absent", s |-> <<>>, a |-> <<>>, m |-> <<>>]

\* client.post(&self.endpoint).header("x-goog-api-key", &self.api_key).json(...):
\* the request, to the URL the endpoint parses to, or none when the credential is no header value: the builder
\* then holds the error of the header, and .json(...) leaves it as it is.
build_request(cl, prompt) ==
    LET key == header_value(cl.api_key)
    IN  IF key = None THEN None
        ELSE Some([method |-> <<80, 79, 83, 84>>,  \* "POST"
                   url |-> parse_url(cl.endpoint),
                   \* "x-goog-api-key"
                   headers |-> <<Entry(<<120, 45, 103, 111, 111, 103, 45, 97, 112, 105, 45,
                           107, 101, 121>>, key[1]),
                                 \* "content-type", "application/json"
                                 Entry(<<99, 111, 110, 116, 101, 110, 116, 45, 116, 121, 112,
                                         101>>, <<97, 112, 112, 108, 105, 99, 97, 116, 105,
                                         111, 110, 47, 106, 115, 111, 110>>)>>,
                   body |-> request_body(prompt)])

\* The request is sent, and sent once more.
issue_twice(wr, c, built) ==
    IF built = None THEN wr ELSE [wr EXCEPT ![c] = @ \o <<built[1], built[1]>>]

\* .send() of the builder: the request it holds goes on the network, and a
\* builder that holds an error puts nothing there
issue(wr, c, built) ==
    IF built = None THEN wr ELSE [wr EXCEPT ![c] = Append(@, built[1])]

\* The redirect policy of reqwest::Client::new() is Policy::default(): a chain
\* of at most RedirectLimit requests.
RedirectLimit == 10

\* The redirect statuses the service answers with, every one with a Location
\* header that names RedirectTarget.  (A redirect status without a Location
\* comes back to generate as any other non-success status.)
RedirectStatuses == {302, 307}
\* "https://generativelanguage.googleapis.com/moved"
RedirectTarget == <<104, 116, 116, 112, 115, 58, 47, 47, 103, 101, 110, 101, 114, 97, 116, 105,
        118, 101, 108, 97, 110, 103, 117, 97, 103, 101, 46, 103, 111, 111, 103, 108, 101, 97,
        112, 105, 115, 46, 99, 111, 109, 47, 109, 111, 118, 101, 100>>

\* The headers of req without those named in names
without_headers(hs, names) == SelectSeq(hs, LAMBDA h : h[1] \notin names)

\* The request reqwest sends next, inside send(), on a redirect status st of the
\* answer to req: to RedirectTarget, with the URL of req as its Referer; after
\* 301, 302 and 303 as a GET without the body and its headers, after 307 and 308
\* as req was.  The x-goog-api-key header is none of those left out on the way
\* to another host.
redirected(req, st) ==
    IF st \in {301, 302, 303}
    THEN [method |-> <<71, 69, 84>>,  \* "GET"
          url |-> RedirectTarget,
          headers |-> Append(without_headers(req.headers,
                                 \* "transfer-encoding", "content-encoding"
                                 {<<116, 114, 97, 110, 115, 102, 101, 114, 45, 101, 110, 99,
                                         111, 100, 105, 110, 103>>, <<99, 111, 110, 116, 101,
                                         110, 116, 45, 101, 110, 99, 111, 100, 105, 110, 103>>,
                                  \* "content-type", "content-length", "referer"
                                  <<99, 111, 110, 116, 101, 110, 116, 45, 116, 121, 112, 101>>,
                                          <<99, 111, 110, 116, 101, 110, 116, 45, 108, 101,
                                          110, 103, 116, 104>>, <<114, 101, 102, 101, 114, 101,
                                          114>>}),
                             \* "referer"
                             Entry(<<114, 101, 102, 101, 114, 101, 114>>,
                                     without_fragment(req.url))),
          body |-> NoPayload]
    ELSE [method |-> req.method,
          url |-> RedirectTarget,
          \* "referer"
          headers |-> Append(without_headers(req.headers, {<<114, 101, 102, 101, 114, 101,
                  114>>}),
                             \* "referer"
                             Entry(<<114, 101, 102, 101, 114, 101, 114>>,
                                     without_fragment(req.url))),
          body |-> req.body]

\* StatusCode::is_success
is_success(st) == st >= 200 /\ st < 300

\* StatusCode::canonical_reason
canonical_reason(st) ==
    CASE st = 100 -> <<67, 111, 110, 116, 105, 110, 117, 101>>  \* "Continue"
      \* "Switching Protocols"
      [] st = 101 -> <<83, 119, 105, 116, 99, 104, 105, 110, 103, 32, 80, 114, 111, 116, 111,
              99, 111, 108, 115>>
      [] st = 102 -> <<80, 114, 111, 99, 101, 115, 115, 105, 110, 103>>  \* "Processing"
      [] st = 103 -> <<69, 97, 114, 108, 121, 32, 72, 105, 110, 116, 115>>  \* "Early Hints"
      [] st = 200 -> <<79, 75>>  \* "OK"
      [] st = 201 -> <<67, 114, 101, 97, 116, 101, 100>>  \* "Created"
      [] st = 202 -> <<65, 99, 99, 101, 112, 116, 101, 100>>  \* "Accepted"
      \* "Non Authoritative Information"
      [] st = 203 -> <<78, 111, 110, 32, 65, 117, 116, 104, 111, 114, 105, 116, 97, 116, 105,
              118, 101, 32, 73, 110, 102, 111, 114, 109, 97, 116, 105, 111, 110>>
      [] st = 204 -> <<78, 111, 32, 67, 111, 110, 116, 101, 110, 116>>  \* "No Content"
      \* "Reset Content"
      [] st = 205 -> <<82, 101, 115, 101, 116, 32, 67, 111, 110, 116, 101, 110, 116>>
      \* "Partial Content"
      [] st = 206 -> <<80, 97, 114, 116, 105, 97, 108, 32, 67, 111, 110, 116, 101, 110, 116>>
      [] st = 207 -> <<77, 117, 108, 116, 105, 45, 83, 116, 97, 116, 117, 115>>  \* "Multi-Status"
      \* "Already Reported"
      [] st = 208 -> <<65, 108, 114, 101, 97, 100, 121, 32, 82, 101, 112, 111, 114, 116, 101,
              100>>
      [] st = 226 -> <<73, 77, 32, 85, 115, 101, 100>>  \* "IM Used"
      \* "Multiple Choices"
      [] st = 300 -> <<77, 117, 108, 116, 105, 112, 108, 101, 32, 67, 104, 111, 105, 99, 101,
              115>>
      \* "Moved Permanently"
      [] st = 301 -> <<77, 111, 118, 101, 100, 32, 80, 101, 114, 109, 97, 110, 101, 110, 116,
              108, 121>>
      [] st = 302 -> <<70, 111, 117, 110, 100>>  \* "Found"
      [] st = 303 -> <<83, 101, 101, 32, 79, 116, 104, 101, 114>>  \* "See Other"
      [] st = 304 -> <<78, 111, 116, 32, 77, 111, 100, 105, 102, 105, 101, 100>>  \* "Not Modified"
      [] st = 305 -> <<85, 115, 101, 32, 80, 114, 111, 120, 121>>  \* "Use Proxy"
      \* "Temporary Redirect"
      [] st = 307 -> <<84, 101, 109, 112, 111, 114, 97, 114, 121, 32, 82, 101, 100, 105, 114,
              101, 99, 116>>
      \* "Permanent Redirect"
      [] st = 308 -> <<80, 101, 114, 109, 97, 110, 101, 110, 116, 32, 82, 101, 100, 105, 114,
              101, 99, 116>>
      [] st = 400 -> <<66, 97, 100, 32, 82, 101, 113, 117, 101, 115, 116>>  \* "Bad Request"
      [] st = 401 -> <<85, 110, 97, 117, 116, 104, 111, 114, 105, 122, 101, 100>>  \* "Unauthorized"
      \* "Payment Required"
      [] st = 402 -> <<80, 97, 121, 109, 101, 110, 116, 32, 82, 101, 113, 117, 105, 114, 101,
              100>>
      [] st = 403 -> <<70, 111, 114, 98, 105, 100, 100, 101, 110>>  \* "Forbidden"
      [] st = 404 -> <<78, 111, 116, 32, 70, 111, 117, 110, 100>>  \* "Not Found"
      \* "Method Not Allowed"
      [] st = 405 -> <<77, 101, 116, 104, 111, 100, 32, 78, 111, 116, 32, 65, 108, 108, 111,
              119, 101, 100>>
      \* "Not Acceptable"
      [] st = 406 -> <<78, 111, 116, 32, 65, 99, 99, 101, 112, 116, 97, 98, 108, 101>>
      \* "Proxy Authentication Required"
      [] st = 407 -> <<80, 114, 111, 120, 121, 32, 65, 117, 116, 104, 101, 110, 116, 105, 99,
              97, 116, 105, 111, 110, 32, 82, 101, 113, 117, 105, 114, 101, 100>>
      \* "Request Timeout"
      [] st = 408 -> <<82, 101, 113, 117, 101, 115, 116, 32, 84, 105, 109, 101, 111, 117, 116>>
      [] st = 409 -> <<67, 111, 110, 102, 108, 105, 99, 116>>  \* "Conflict"
      [] st = 410 -> <<71, 111, 110, 101>>  \* "Gone"
      \* "Length Required"
      [] st = 411 -> <<76, 101, 110, 103, 116, 104, 32, 82, 101, 113, 117, 105, 114, 101, 100>>
      \* "Precondition Failed"
      [] st = 412 -> <<80, 114, 101, 99, 111, 110, 100, 105, 116, 105, 111, 110, 32, 70, 97,
              105, 108, 101, 100>>
      \* "Payload Too Large"
      [] st = 413 -> <<80, 97, 121, 108, 111, 97, 100, 32, 84, 111, 111, 32, 76, 97, 114, 103,
              101>>
      [] st = 414 -> <<85, 82, 73, 32, 84, 111, 111, 32, 76, 111, 110, 103>>  \* "URI Too Long"
      \* "Unsupported Media Type"
      [] st = 415 -> <<85, 110, 115, 117, 112, 112, 111, 114, 116, 101, 100, 32, 77, 101, 100,
              105, 97, 32, 84, 121, 112, 101>>
      \* "Range Not Satisfiable"
      [] st = 416 -> <<82, 97, 110, 103, 101, 32, 78, 111, 116, 32, 83, 97, 116, 105, 115, 102,
              105, 97, 98, 108, 101>>
      \* "Expectation Failed"
      [] st = 417 -> <<69, 120, 112, 101, 99, 116, 97, 116, 105, 111, 110, 32, 70, 97, 105,
              108, 101, 100>>
      [] st = 418 -> <<73, 39, 109, 32, 97, 32, 116, 101, 97, 112, 111, 116>>  \* "I'm a teapot"
      \* "Misdirected Request"
      [] st = 421 -> <<77, 105, 115, 100, 105, 114, 101, 99, 116, 101, 100, 32, 82, 101, 113,
              117, 101, 115, 116>>
      \* "Unprocessable Entity"
      [] st = 422 -> <<85, 110, 112, 114, 111, 99, 101, 115, 115, 97, 98, 108, 101, 32, 69,
              110, 116, 105, 116, 121>>
      [] st = 423 -> <<76, 111, 99, 107, 101, 100>>  \* "Locked"
      \* "Failed Dependency"
      [] st = 424 -> <<70, 97, 105, 108, 101, 100, 32, 68, 101, 112, 101, 110, 100, 101, 110,
              99, 121>>
      [] st = 425 -> <<84, 111, 111, 32, 69, 97, 114, 108, 121>>  \* "Too Early"
      \* "Upgrade Required"
      [] st = 426 -> <<85, 112, 103, 114, 97, 100, 101, 32, 82, 101, 113, 117, 105, 114, 101,
              100>>
      \* "Precondition Required"
      [] st = 428 -> <<80, 114, 101, 99, 111, 110, 100, 105, 116, 105, 111, 110, 32, 82, 101,
              113, 117, 105, 114, 101, 100>>
      \* "Too Many Requests"
      [] st = 429 -> <<84, 111, 111, 32, 77, 97, 110, 121, 32, 82, 101, 113, 117, 101, 115,
              116, 115>>
      \* "Request Header Fields Too Large"
      [] st = 431 -> <<82, 101, 113, 117, 101, 115, 116, 32, 72, 101, 97, 100, 101, 114, 32,
              70, 105, 101, 108, 100, 115, 32, 84, 111, 111, 32, 76, 97, 114, 103, 101>>
      \* "Unavailable For Legal Reasons"
      [] st = 451 -> <<85, 110, 97, 118, 97, 105, 108, 97, 98, 108, 101, 32, 70, 111, 114, 32,
              76, 101, 103, 97, 108, 32, 82, 101, 97, 115, 111, 110, 115>>
      \* "Internal Server Error"
      [] st = 500 -> <<73, 110, 116, 101, 114, 110, 97, 108, 32, 83, 101, 114, 118, 101, 114,
              32, 69, 114, 114, 111, 114>>
      \* "Not Implemented"
      [] st = 501 -> <<78, 111, 116, 32, 73, 109, 112, 108, 101, 109, 101, 110, 116, 101, 100>>
      [] st = 502 -> <<66, 97, 100, 32, 71, 97, 116, 101, 119, 97, 121>>  \* "Bad Gateway"
      \* "Service Unavailable"
      [] st = 503 -> <<83, 101, 114, 118, 105, 99, 101, 32, 85, 110, 97, 118, 97, 105, 108, 97,
              98, 108, 101>>
      \* "Gateway Timeout"
      [] st = 504 -> <<71, 97, 116, 101, 119, 97, 121, 32, 84, 105, 109, 101, 111, 117, 116>>
      \* "HTTP Version Not Supported"
      [] st = 505 -> <<72, 84, 84, 80, 32, 86, 101, 114, 115, 105, 111, 110, 32, 78, 111, 116,
              32, 83, 117, 112, 112, 111, 114, 116, 101, 100>>
      \* "Variant Also Negotiates"
      [] st = 506 -> <<86, 97, 114, 105, 97, 110, 116, 32, 65, 108, 115, 111, 32, 78, 101, 103,
              111, 116, 105, 97, 116, 101, 115>>
      \* "Insufficient Storage"
      [] st = 507 -> <<73, 110, 115, 117, 102, 102, 105, 99, 105, 101, 110, 116, 32, 83, 116,
              111, 114, 97, 103, 101>>
      \* "Loop Detected"
      [] st = 508 -> <<76, 111, 111, 112, 32, 68, 101, 116, 101, 99, 116, 101, 100>>
      [] st = 510 -> <<78, 111, 116, 32, 69, 120, 116, 101, 110, 100, 101, 100>>  \* "Not Extended"
      \* "Network Authentication Required"
      [] st = 511 -> <<78, 101, 116, 119, 111, 114, 107, 32, 65, 117, 116, 104, 101, 110, 116,
              105, 99, 97, 116, 105, 111, 110, 32, 82, 101, 113, 117, 105, 114, 101, 100>>
      \* "<unknown status code>"
      [] OTHER -> <<60, 117, 110, 107, 110, 111, 119, 110, 32, 115, 116, 97, 116, 117, 115, 32,
              99, 111, 100, 101, 62>>

\* Display of a StatusCode
status_display(st) == Digits(st) \o <<32>> \o canonical_reason(st)

\* "Gemini API returned HTTP {}:\n{}" of a status and a body text
ServiceFailed(st, text) ==
    \* "Gemini API returned HTTP "
    <<71, 101, 109, 105, 110, 105, 32, 65, 80, 73, 32, 114, 101, 116, 117, 114, 110, 101, 100,
            32, 72, 84, 84, 80, 32>> \o status_display(st) \o <<58, 10>> \o text

\* The messages of a reqwest::Error by its kind
\* "builder error"
BuilderError == <<98, 117, 105, 108, 100, 101, 114, 32, 101, 114, 114, 111, 114>>
\* "error sending request"
SendError == <<101, 114, 114, 111, 114, 32, 115, 101, 110, 100, 105, 110, 103, 32, 114, 101,
        113, 117, 101, 115, 116>>
\* "error following redirect"
RedirectError == <<101, 114, 114, 111, 114, 32, 102, 111, 108, 108, 111, 119, 105, 110, 103,
        32, 114, 101, 100, 105, 114, 101, 99, 116>>
\* "request or response body error"
BodyError == <<114, 101, 113, 117, 101, 115, 116, 32, 111, 114, 32, 114, 101, 115, 112, 111,
        110, 115, 101, 32, 98, 111, 100, 121, 32, 101, 114, 114, 111, 114>>
\* "error decoding response body"
DecodeError == <<101, 114, 114, 111, 114, 32, 100, 101, 99, 111, 100, 105, 110, 103, 32, 114,
        101, 115, 112, 111, 110, 115, 101, 32, 98, 111, 100, 121>>

\* A response body: its text (the bytes are taken to be UTF-8 without a byte
\* order mark, so that the text read is the body as it was sent) when it can be
\* read, or a body whose read fails.
Readable(raw) == [readable |-> TRUE, raw |-> raw]
Unreadable == [readable |-> FALSE, raw |-> <<>>]
NoBody == [readable |-> FALSE, raw |-> <<40, 110, 111, 110, 101, 41>>]  \* "(none)"

\* A usable response as the service writes it: spaced, with keys the program
\* does not look at, and a text that has whitespace around it.
\* "{ "role": 1, "candidates": [{"content": {"parts": [{"text": " a\n"}]}}] }"
UsableBody == <<123, 32, 34, 114, 111, 108, 101, 34, 58, 32, 49, 44, 32, 34, 99, 97, 110, 100,
        105, 100, 97, 116, 101, 115, 34, 58, 32, 91, 123, 34, 99, 111, 110, 116, 101, 110, 116,
        34, 58, 32, 123, 34, 112, 97, 114, 116, 115, 34, 58, 32, 91, 123, 34, 116, 101, 120,
        116, 34, 58, 32, 34, 32, 97, 92, 110, 34, 125, 93, 125, 125, 93, 32, 125>>

\* A JSON body off the schema, and a body that is no JSON.
\* "{"candidates":[]}"
EmptyCandidatesBody == <<123, 34, 99, 97, 110, 100, 105, 100, 97, 116, 101, 115, 34, 58, 91,
        93, 125>>
\* "internal error"
PlainBody == <<105, 110, 116, 101, 114, 110, 97, 108, 32, 101, 114, 114, 111, 114>>

Bodies == {Readable(UsableBody), Readable(EmptyCandidatesBody), Readable(PlainBody), Unreadable}

\* The status is not looked at: every body is decoded and extracted from.
after_response_ignoring_status(st, b) ==
    IF ~b.readable THEN ErrReqwest(BodyError, <<>>)
    ELSE LET decoded(d) ==
                 IF d = None THEN ErrReqwest(DecodeError, <<>>) ELSE parse_response_json(d[1])
         IN  decoded(from_slice(b.raw))

\* An error body is tried as a normal response before it is reported.
after_response_parsing_error_body(st, b) ==
    IF ~b.readable THEN ErrReqwest(BodyError, <<>>)
    ELSE LET extracted(d, r) ==
                 IF ~is_success(st)
                 THEN IF d # None /\ r.tag = "Ok" THEN r ELSE ErrMsg(ServiceFailed(st, b.raw))
                 ELSE IF d = None THEN ErrReqwest(DecodeError, <<>>)
                      ELSE r
             decoded(d) == extracted(d, IF d = None THEN NotYet ELSE parse_response_json(d[1]))
         IN  decoded(from_slice(b.raw))

\* A body that is no JSON is reported as a failed extraction.
after_response_decode_as_malformed(st, b) ==
    IF ~is_success(st)
    THEN IF ~b.readable THEN ErrReqwest(BodyError, <<>>)
         ELSE ErrMsg(ServiceFailed(st, b.raw))
    ELSE IF ~b.readable THEN ErrReqwest(BodyError, <<>>)
         ELSE LET decoded(d) ==
                      IF d = None THEN ErrMsg(ExtractFailed \o b.raw)
                      ELSE parse_response_json(d[1])
              IN  decoded(from_slice(b.raw))

\* generate from the response on: the status check, resp.text().await? and the
\* error made of it, or resp.json().await? and parse_response_json.
after_response(st, b) ==
    IF ~is_success(st)
    THEN IF ~b.readable THEN ErrReqwest(BodyError, <<>>)
         ELSE ErrMsg(ServiceFailed(st, b.raw))
    ELSE IF ~b.readable THEN ErrReqwest(BodyError, <<>>)
         ELSE LET decoded(d) ==
                      IF d = None THEN ErrReqwest(DecodeError, <<>>)
                      ELSE parse_response_json(d[1])
              IN  decoded(from_slice(b.raw))

\* The result is kept in a slot the calls in flight share.
complete_shared(cs, c, r) ==
    [d \in DOMAIN cs |->
        IF d = c THEN [cs[d] EXCEPT !.pc = "done", !.result = r]
        ELSE IF cs[d].pc = "idle" THEN cs[d]
        ELSE [cs[d] EXCEPT !.result = r]]

\* generate returns r to its own caller
complete(cs, c, r) == [cs EXCEPT ![c] = [@ EXCEPT !.pc = "done", !.result = r]]

-----------------------------------------------------------------------------
(* The client specification: generate calls on one client, interleaved at the
   awaits of generate *)

Calls == 1..NCalls
\* Two credentials that are header values, one the URL parser writes as it is
\* and one ("K", a tab, a blank, "1") it rewrites, and one with a line feed that
\* is none
ApiKeys == {<<75, 49>>, <<75, 9, 32, 49>>, <<75, 10>>}  \* "K1"
Prompts == {<<>>, <<32, 97>>}  \* " a"
Statuses == {200, 429, 500}

IdleCall == [pc |-> "idle", prompt |-> <<>>, status |-> 0, body |-> NoBody,
             result |-> NotYet]

Init ==
    /\ v = Null
    /\ w = Null
    /\ out = NotYet
    /\ out2 = NotYet
    /\ \E k \in ApiKeys : client = new(k)
    /\ calls = [c \in Calls |-> IdleCall]
    /\ wire = [c \in Calls |-> <<>>]

\* The request of call c that is on the network last
last_request(c) == wire[c][Len(wire[c])]

\* generate(prompt), line 45: reqwest::Client::new() panics (the TLS backend or
\* the system configuration of the resolver cannot be loaded), and generate
\* unwinds into its caller before a request is built
NewClientPanics(c, p) ==
    /\ calls[c].pc = "idle"
    /\ calls' = [calls EXCEPT ![c] = [@ EXCEPT !.pc = "panicked", !.prompt = p]]
    /\ UNCHANGED <<v, w, out, out2, client, wire>>

\* generate(prompt), lines 45 to 54, up to .send().await: the request is built
\* and goes on the network; or the builder holds an error, and .send().await?
\* returns it with nothing sent
Send(c, p) ==
    \/ /\ calls[c].pc = "idle"
       /\ build_request(client, p) # None
       /\ wire' = issue(wire, c, build_request(client, p))
       /\ calls' = [calls EXCEPT ![c] = [@ EXCEPT !.pc = "sending", !.prompt = p]]
       /\ UNCHANGED <<v, w, out, out2, client>>
    \/ /\ calls[c].pc = "idle"
       /\ build_request(client, p) = None
       /\ wire' = issue(wire, c, build_request(client, p))
       /\ calls' = complete([calls EXCEPT ![c] = [@ EXCEPT !.prompt = p]], c,
                            ErrReqwest(BuilderError, <<>>))
       /\ UNCHANGED <<v, w, out, out2, client>>

\* Inside .send().await: the answer has a redirect status st and a Location.
\* The policy follows it with the next request while fewer than RedirectLimit
\* are on the network, and fails the send with the URL of the last otherwise.
\* The service answers with at most MaxRedirects redirects in a call.
Redirect(c, st) ==
    /\ calls[c].pc = "sending"
    /\ Len(wire[c]) <= MaxRedirects
    /\ IF Len(wire[c]) >= RedirectLimit
       THEN /\ calls' = complete(calls, c, ErrReqwest(RedirectError, last_request(c).url))
            /\ UNCHANGED wire
       ELSE /\ wire' = [wire EXCEPT ![c] = Append(@, redirected(last_request(c), st))]
            /\ UNCHANGED calls
    /\ UNCHANGED <<v, w, out, out2, client>>

\* .send().await? fails: the error carries the URL of the request that failed
SendFails(c) ==
    /\ calls[c].pc = "sending"
    /\ calls' = complete(calls, c, ErrReqwest(SendError, last_request(c).url))
    /\ UNCHANGED <<v, w, out, out2, client, wire>>

\* .send().await? yields a response with status st, whose body will be b
Respond(c, st, b) ==
    /\ calls[c].pc = "sending"
    /\ calls' = [calls EXCEPT ![c] = [@ EXCEPT !.pc = "responded", !.status = st,
                                                 !.body = b]]
    /\ UNCHANGED <<v, w, out, out2, client, wire>>

\* !resp.status().is_success(): resp.text().await? and the return of the error
ReadErrorBody(c) ==
    /\ calls[c].pc = "responded"
    /\ ~is_success(calls[c].status)
    /\ calls' = complete(calls, c, after_response(calls[c].status, calls[c].body))
    /\ UNCHANGED <<v, w, out, out2, client, wire>>

\* resp.json().await? and Self::parse_response_json(&v)
ReadJson(c) ==
    /\ calls[c].pc = "responded"
    /\ is_success(calls[c].status)
    /\ calls' = complete(calls, c, after_response(calls[c].status, calls[c].body))
    /\ UNCHANGED <<v, w, out, out2, client, wire>>

Next ==
    \E c \in Calls :
        \/ \E p \in Prompts : NewClientPanics(c, p)
        \/ \E p \in Prompts : Send(c, p)
        \/ \E st \in RedirectStatuses : Redirect(c, st)
        \/ SendFails(c)
        \/ \E st \in Statuses : \E b \in Bodies : Respond(c, st, b)
        \/ ReadErrorBody(c)
        \/ ReadJson(c)

Spec == Init /\ [][Next]_vars

-----------------------------------------------------------------------------
(* Properties of parse_response_json, checked under ParseSpec *)

\* The members of x under key (none unless x is a map holding the key).
Member(x, key) ==
    IF x.t = "Obj" THEN {x.m[i][2] : i \in {j \in DOMAIN x.m : x.m[j][1] = key}} ELSE {}

\* The element 0 of x (none unless x is a non-empty sequence).
First(x) == IF x.t = "Arr" /\ Len(x.a) >= 1 THEN {x.a[1]} ELSE {}

\* What stands at candidates[0].content.parts[0]: a set of at most one value.
FirstPartOf(x) ==
    LET cands == Member(x, <<99, 97, 110, 100, 105, 100, 97, 116, 101, 115>>)  \* "candidates"
        cand0 == UNION {First(c) : c \in cands}
        conts == UNION {Member(c, <<99, 111, 110, 116, 101, 110, 116>>) : c \in cand0}  \* "content"
        parts == UNION {Member(c, <<112, 97, 114, 116, 115>>) : c \in conts}  \* "parts"
    IN  UNION {First(ps) : ps \in parts}

\* What stands at candidates[0].content.parts[0].text.
TextLeafOf(x) == UNION {Member(p, <<116, 101, 120, 116>>) : p \in FirstPartOf(x)}  \* "text"

\* t is s without its leading and trailing whitespace.
IsStripOf(t, s) ==
    \E i \in 0..Len(s) : \E j \in 0..(Len(s) - i) :
        /\ t = SubSeq(s, i + 1, Len(s) - j)
        /\ \A k \in 1..i : is_whitespace(s[k])
        /\ \A k \in (Len(s) - j + 1)..Len(s) : is_whitespace(s[k])
        /\ t # <<>> => ~is_whitespace(t[1]) /\ ~is_whitespace(t[Len(t)])

\* C1: when candidates[0].content.parts[0].text is a string s, the call succeeds
\* with exactly s stripped of leading and trailing whitespace, whatever else the
\* value holds and also when nothing is left of s.
C1_ExtractsTrimmedText ==
    out # NotYet =>
        \A leaf \in TextLeafOf(v) :
            leaf.t = "Str" => out.tag = "Ok" /\ IsStripOf(out.text, leaf.s)

\* C1 witness: a whitespace-only text of full length, with a form feed and a
\* no-break space in it, gave success with the empty string, and a padded text in a value with an unrelated key gave its
\* stripped text.
C1_Witness ==
    /\ out = Ok(<<>>)
    /\ \E leaf \in TextLeafOf(v) :
           /\ leaf.t = "Str" /\ Len(leaf.s) = MaxLen
           /\ {12, 160} \subseteq {leaf.s[i] : i \in DOMAIN leaf.s}
    /\ \E leaf \in TextLeafOf(w) : leaf.t = "Str" /\ out2 = Ok(<<97>>) /\ Len(leaf.s) > 1  \* "a"
    \* "usageMetadata"
    /\ Member(w, <<117, 115, 97, 103, 101, 77, 101, 116, 97, 100, 97, 116, 97>>) # {}

\* C2: when the path candidates[0].content.parts[0].text does not lead to a
\* string, the call fails, the error is the extraction error carrying the
\* rendering of the whole value, and nothing of a success is returned.
C2_MalformedFails ==
    (out # NotYet /\ \A leaf \in TextLeafOf(v) : leaf.t # "Str") =>
        /\ out.tag = "Err"
        /\ out.text = <<>>
        /\ out.origin = "anyhow"
        /\ out.msg = ExtractFailed \o Render(v)

\* C2 witness: a numeric text leaf failed, and so did a top-level value that is
\* no map but a string of a form feed, a quote, U+0001 and a no-break space,
\* with the error that renders it as JSON.
C2_Witness ==
    /\ out.tag = "Err"
    /\ \E leaf \in TextLeafOf(v) : leaf.t = "Num"
    /\ w = Str(<<12, 34, 1, 160>>)
    \* ""\f\"\u0001"
    /\ out2.msg = ExtractFailed \o <<34, 92, 102, 92, 34, 92, 117, 48, 48, 48, 49>> \o <<160,
            34>>

BothParsed == out # NotYet /\ out2 # NotYet

\* C10 as stated: two values that hold the same candidates[0].content.parts[0]
\* give the same result.
C10_SameResult ==
    (BothParsed /\ FirstPartOf(v) # {} /\ FirstPartOf(v) = FirstPartOf(w)) => out = out2

\* C10 as amended: two values that agree on candidates[0].content.parts[0] (the
\* same value there, or none in either) both
\* succeed with the same text or both fail with the extraction error, each error
\* carrying the rendering of its own value; a usable later candidate or part
\* changes nothing.
C10_SameOutcome ==
    (BothParsed /\ FirstPartOf(v) = FirstPartOf(w)) =>
        /\ out.tag = out2.tag
        /\ out.text = out2.text
        /\ out.tag = "Err" =>
              /\ out.msg = ExtractFailed \o Render(v)
              /\ out2.msg = ExtractFailed \o Render(w)

\* C10 witness: w has a usable second candidate behind an unusable first one,
\* agrees with v on the first part, and failed like v.
C10_Witness ==
    /\ BothParsed
    /\ v # w
    /\ FirstPartOf(v) = FirstPartOf(w)
    /\ out2.tag = "Err"
    /\ out.tag = "Err"
    /\ \E cs \in Member(w, <<99, 97, 110, 100, 105, 100, 97, 116, 101, 115>>) :  \* "candidates"
           cs.t = "Arr" /\ Len(cs.a) = 2 /\ cs.a[2] = GoodCandidate

-----------------------------------------------------------------------------
(* Properties of generate, checked under Spec *)

Done(c) == calls[c].pc = "done"
\* The service answered call c (a status came back), whatever became of the body.
Answered(c) == calls[c].status # 0

Contains(cs, sub) ==
    \E i \in 1..(Len(cs) - Len(sub) + 1) : SubSeq(cs, i, i + Len(sub) - 1) = sub

\* The structured values a body text is the JSON text of: at most one.
DecodedOf(b) ==
    LET values(d) == IF d = None THEN {} ELSE {d[1]}
    IN  IF b.readable THEN values(from_slice(b.raw)) ELSE {}

IsTransportError(r) == r.tag = "Err" /\ r.origin = "reqwest"
IsServiceError(r) ==
    \* "Gemini API returned HTTP "
    r.tag = "Err" /\ r.origin = "anyhow" /\ starts_with(r.msg, 1, <<71, 101, 109, 105, 110,
            105, 32, 65, 80, 73, 32, 114, 101, 116, 117, 114, 110, 101, 100, 32, 72, 84, 84,
            80, 32>>)
IsMalformedResponse(r) ==
    r.tag = "Err" /\ r.origin = "anyhow" /\ starts_with(r.msg, 1, ExtractFailed)

\* The service error of a status and a body text: both are in its message, the
\* status as its number and reason, the body as it was read.
CarriesStatusAndBody(r, st, raw) ==
    /\ IsServiceError(r)
    \* "Gemini API returned HTTP "
    /\ r.msg = <<71, 101, 109, 105, 110, 105, 32, 65, 80, 73, 32, 114, 101, 116, 117, 114, 110,
            101, 100, 32, 72, 84, 84, 80, 32>> \o Digits(st) \o <<32>> \o canonical_reason(st)
                   \o <<58, 10>> \o raw

\* C3 as stated: whenever the service answers with a non-success status, generate
\* fails with the service error carrying that status and the raw body text.
C3_NonSuccessIsServiceError ==
    \A c \in Calls :
        (Done(c) /\ Answered(c) /\ ~is_success(calls[c].status)) =>
            CarriesStatusAndBody(calls[c].result, calls[c].status, calls[c].body.raw)

\* C3 as amended: whenever the service answers with a non-success status and the
\* body can be read as text, generate fails with the service error carrying that
\* status and the raw body text, also when the body is the JSON of a usable
\* response; when the body cannot be read, generate fails with the transport
\* error of the read.
C3_NonSuccessReadableIsServiceError ==
    \A c \in Calls :
        (Done(c) /\ Answered(c) /\ ~is_success(calls[c].status)) =>
            /\ calls[c].body.readable =>
                  CarriesStatusAndBody(calls[c].result, calls[c].status, calls[c].body.raw)
            /\ ~calls[c].body.readable => IsTransportError(calls[c].result)

\* C3 witness: status 500 with body "internal error" gave the service error of
\* both, and status 429 with the JSON of a usable response gave the service
\* error of that status and that text.
C3_Witness ==
    \E c, d \in Calls :
        \* "internal error"
        /\ Done(c) /\ calls[c].status = 500 /\ calls[c].body = Readable(<<105, 110, 116, 101,
                114, 110, 97, 108, 32, 101, 114, 114, 111, 114>>)
        /\ calls[c].result.msg =
               \* "Gemini API returned HTTP 500 Internal Server Error:"
               <<71, 101, 109, 105, 110, 105, 32, 65, 80, 73, 32, 114, 101, 116, 117, 114, 110,
                       101, 100, 32, 72, 84, 84, 80, 32, 53, 48, 48, 32, 73, 110, 116, 101,
                       114, 110, 97, 108, 32, 83, 101, 114, 118, 101, 114, 32, 69, 114, 114,
                       111, 114, 58>> \o <<10>>
                   \* "internal error"
                   \o <<105, 110, 116, 101, 114, 110, 97, 108, 32, 101, 114, 114, 111, 114>>
        /\ Done(d) /\ calls[d].status = 429
        /\ \E x \in DecodedOf(calls[d].body) : \E leaf \in TextLeafOf(x) : leaf.t = "Str"
        /\ calls[d].result.msg =
               \* "Gemini API returned HTTP 429 Too Many Requests:"
               <<71, 101, 109, 105, 110, 105, 32, 65, 80, 73, 32, 114, 101, 116, 117, 114, 110,
                       101, 100, 32, 72, 84, 84, 80, 32, 52, 50, 57, 32, 84, 111, 111, 32, 77,
                       97, 110, 121, 32, 82, 101, 113, 117, 101, 115, 116, 115, 58>> \o <<10>>
                   \o calls[d].body.raw

\* C4: on a success status with a body that decodes to x, generate returns what
\* parse_response_json returns for x: the trimmed text when the path leads to a
\* string, the extraction error otherwise; and generate succeeds in no other case.
C4_SuccessDelegatesToExtraction ==
    \A c \in Calls :
        Done(c) =>
            LET decoded == DecodedOf(calls[c].body)
            IN
            /\ is_success(calls[c].status) =>
                  \A x \in decoded :
                      /\ calls[c].result = parse_response_json(x)
                      /\ \A leaf \in TextLeafOf(x) :
                             leaf.t = "Str" =>
                                 /\ calls[c].result.tag = "Ok"
                                 /\ IsStripOf(calls[c].result.text, leaf.s)
                      /\ (\A leaf \in TextLeafOf(x) : leaf.t # "Str") =>
                             IsMalformedResponse(calls[c].result)
            /\ calls[c].result.tag = "Ok" =>
                  /\ is_success(calls[c].status)
                  /\ decoded # {}

\* C4 witness: one call succeeded with the trimmed text of its body, another got
\* a success status with a body off the schema and failed with the extraction
\* error.
C4_Witness ==
    \E c, d \in Calls :
        /\ Done(c) /\ calls[c].status = 200 /\ calls[c].body = Readable(UsableBody)
        /\ calls[c].result = Ok(<<97>>)  \* "a"
        /\ Done(d) /\ calls[d].status = 200 /\ DecodedOf(calls[d].body) # {}
        /\ IsMalformedResponse(calls[d].result)

\* A call whose request could not be built: .send() gave back the error of the
\* builder.
BuilderRefused(c) == Done(c) /\ calls[c].result = ErrReqwest(BuilderError, <<>>)

\* The classes of error the result r belongs to: how many of the three.
ClassesOf(r) ==
    (IF IsTransportError(r) THEN 1 ELSE 0)
        + (IF IsServiceError(r) THEN 1 ELSE 0)
        + (IF IsMalformedResponse(r) THEN 1 ELSE 0)

\* The decoded body of call c is off the schema: it has no text at the path.
OffSchema(c) ==
    \E x \in DecodedOf(calls[c].body) : \A leaf \in TextLeafOf(x) : leaf.t # "Str"

\* C5 as stated: no call crashes, and a call that ended has a result which, when
\* it is an error, is of exactly one class: the transport error when the request
\* could not be sent or the body could not be read or decoded, the service
\* error on a non-success status, the extraction error for a decoded body off
\* the schema.
C5_ThreeClassesNoCrash ==
    \A c \in Calls :
        /\ calls[c].pc # "panicked"
        /\ Done(c) =>
               /\ calls[c].result.tag \in {"Ok", "Err"}
               /\ calls[c].result.tag = "Err" => ClassesOf(calls[c].result) = 1
               /\ ~Answered(c) => IsTransportError(calls[c].result)
               /\ (Answered(c) /\ ~calls[c].body.readable) =>
                      IsTransportError(calls[c].result)
               /\ (Answered(c) /\ is_success(calls[c].status) /\ calls[c].body.readable
                       /\ DecodedOf(calls[c].body) = {}) =>
                      IsTransportError(calls[c].result)
               /\ (Answered(c) /\ ~is_success(calls[c].status)) =>
                      IsServiceError(calls[c].result)
               /\ (Answered(c) /\ is_success(calls[c].status) /\ OffSchema(c)) =>
                      IsMalformedResponse(calls[c].result)

\* C5 as amended: a call that ended has a result, which is a text or one error
\* of exactly one class, and the class is settled by what happened.  It is the
\* transport error exactly when the request could not be built or sent, or the
\* body could not be read (whatever the status), or the body of a success status
\* could not be decoded; the service error exactly on a non-success status with
\* a body that could be read; the extraction error exactly on a success status
\* with a decoded body off the schema.  A call ends without a result only by the
\* panic of reqwest::Client::new(), which comes before any request.
C5_ClassByCause ==
    \A c \in Calls :
        /\ calls[c].pc = "panicked" => (wire[c] = <<>> /\ calls[c].result = NotYet)
        /\ Done(c) =>
               /\ calls[c].result.tag \in {"Ok", "Err"}
               /\ calls[c].result.tag = "Err" => ClassesOf(calls[c].result) = 1
               /\ calls[c].result.tag = "Ok" => ClassesOf(calls[c].result) = 0
               /\ IsTransportError(calls[c].result) <=>
                      \/ ~Answered(c)
                      \/ ~calls[c].body.readable
                      \/ (is_success(calls[c].status) /\ DecodedOf(calls[c].body) = {})
               /\ IsServiceError(calls[c].result) <=>
                      (Answered(c) /\ ~is_success(calls[c].status)
                           /\ calls[c].body.readable)
               /\ IsMalformedResponse(calls[c].result) <=>
                      (Answered(c) /\ is_success(calls[c].status) /\ OffSchema(c))
               /\ (~Answered(c) /\ wire[c] = <<>>) => BuilderRefused(c)

\* C5 witness: a call answered with status 500 and a body that could not be
\* read ended in the transport error, and another call ended by the panic.
C5_Witness ==
    \E c, d \in Calls :
        /\ Done(c) /\ calls[c].status = 500 /\ calls[c].body = Unreadable
        /\ IsTransportError(calls[c].result)
        /\ calls[d].pc = "panicked"

C8_CredentialOnlyInHeader ==
    \A c \in Calls :
        /\ \A i \in DOMAIN wire[c] :
               /\ \E h \in DOMAIN wire[c][i].headers :
                      \* "x-goog-api-key"
                      wire[c][i].headers[h] = <<<<120, 45, 103, 111, 111, 103, 45, 97, 112,
                              105, 45, 107, 101, 121>>, client.api_key>>
               /\ ~Contains(wire[c][i].url, client.api_key)
               /\ ~Contains(Render(wire[c][i].body), client.api_key)
        /\ ~Contains(calls[c].result.msg, client.api_key)

\* The fixed envelope around a prompt as it was given
EnvelopeOf(prompt) ==
    Obj(<<
        <<<<99, 111, 110, 116, 101, 110, 116, 115>>,  \* "contents"
          Arr(<<Obj(<<
              <<<<112, 97, 114, 116, 115>>,  \* "parts"
                Arr(<<Obj(<< <<<<116, 101, 120, 116>>, Str(prompt)>> >>)>>)>>  \* "text"
          >>)>>)>>,
        \* "generationConfig"
        <<<<103, 101, 110, 101, 114, 97, 116, 105, 111, 110, 67, 111, 110, 102, 105, 103>>,
          \* "maxOutputTokens", "4096"
          Obj(<< <<<<109, 97, 120, 79, 117, 116, 112, 117, 116, 84, 111, 107, 101, 110, 115>>,
                  Num(<<52, 48, 57, 54>>)>>,
                 \* "temperature", "0.0"
                 <<<<116, 101, 109, 112, 101, 114, 97, 116, 117, 114, 101>>, Num(<<48, 46,
                         48>>)>> >>)>>
    >>)

\* C9 as stated: every started call, whatever its prompt, has sent a request
\* whose body is the fixed envelope around the prompt as it was given.
C9_FixedEnvelope ==
    \A c \in Calls :
        calls[c].pc # "idle" =>
            /\ wire[c] # <<>>
            /\ \A i \in DOMAIN wire[c] :
                   wire[c][i].body =
                       Obj(<<
                           <<<<99, 111, 110, 116, 101, 110, 116, 115>>,  \* "contents"
                             Arr(<<Obj(<<
                                 <<<<112, 97, 114, 116, 115>>,  \* "parts"
                                   \* "text"
                                   Arr(<<Obj(<< <<<<116, 101, 120, 116>>,
                                           Str(calls[c].prompt)>> >>)>>)>>
                             >>)>>)>>,
                           \* "generationConfig"
                           <<<<103, 101, 110, 101, 114, 97, 116, 105, 111, 110, 67, 111, 110,
                                   102, 105, 103>>,
                             \* "maxOutputTokens", "4096"
                             Obj(<< <<<<109, 97, 120, 79, 117, 116, 112, 117, 116, 84, 111,
                                     107, 101, 110, 115>>, Num(<<52, 48, 57, 54>>)>>,
                                    \* "temperature", "0.0"
                                    <<<<116, 101, 109, 112, 101, 114, 97, 116, 117, 114, 101>>,
                                            Num(<<48, 46, 48>>)>> >>)>>
                       >>)

\* C9 as amended: every started call, whatever its prompt, whose credential is
\* a header value and whose reqwest::Client::new() did not panic has sent a
\* request, and the body of the request generate built is the fixed envelope
\* around the prompt as it was given; a request reqwest sends after a redirect
\* has that same body or, as a GET, none.  A call whose credential is no header
\* value or whose reqwest::Client::new() panicked has sent no request.
C9_FixedEnvelopeWhenSent ==
    \A c \in Calls :
        /\ (calls[c].pc \notin {"idle", "panicked"}
                /\ header_value(client.api_key) # None) =>
               /\ wire[c] # <<>>
               /\ wire[c][1].body = EnvelopeOf(calls[c].prompt)
        /\ \A i \in DOMAIN wire[c] :
               \/ wire[c][i].body = EnvelopeOf(calls[c].prompt)
               \* "GET"
               \/ i > 1 /\ wire[c][i].method = <<71, 69, 84>> /\ wire[c][i].body = NoPayload
        /\ (calls[c].pc = "panicked" \/ header_value(client.api_key) = None) =>
               wire[c] = <<>>

\* C9 witness: after a call with a prompt that starts with a blank had ended,
\* a call with the empty prompt sent its request.
C9_Witness ==
    \E c, d \in Calls :
        /\ Done(c) /\ calls[c].prompt = <<32, 97>>  \* " a"
        /\ calls[d].pc = "sending" /\ calls[d].prompt = <<>>
        /\ Render(wire[d][1].body) =
               \* "{"contents":[{"parts":[{"text":""}]}],"
               <<123, 34, 99, 111, 110, 116, 101, 110, 116, 115, 34, 58, 91, 123, 34, 112, 97,
                       114, 116, 115, 34, 58, 91, 123, 34, 116, 101, 120, 116, 34, 58, 34, 34,
                       125, 93, 125, 93, 44>> \o
               \* ""generationConfig":{"maxOutputTokens":4096,"temperature":0.0}}"
               <<34, 103, 101, 110, 101, 114, 97, 116, 105, 111, 110, 67, 111, 110, 102, 105,
                       103, 34, 58, 123, 34, 109, 97, 120, 79, 117, 116, 112, 117, 116, 84,
                       111, 107, 101, 110, 115, 34, 58, 52, 48, 57, 54, 44, 34, 116, 101, 109,
                       112, 101, 114, 97, 116, 117, 114, 101, 34, 58, 48, 46, 48, 125, 125>>


====
